---- MODULE Spec2Model ----
(***************************************************************************)
(* Model of ScriptLoader (src/script_loader.py): the file checks and text  *)
(* extraction of load_script, text normalisation, heading matching, scene  *)
(* segmentation, scene building and the result assembly of load_script.    *)
(*                                                                         *)
(* A Python str is a sequence of characters, and a character is a string:  *)
(* a printable ASCII character is itself ("a", " ", "-"), newline, tab,    *)
(* carriage return and form feed are "\n", "\t", "\r" and "\f", and any     *)
(* other code point is "U+" followed by its number in at least four        *)
(* upper-case hexadecimal digits ("U+000B", "U+00A0", "U+0131", "U+1D7CE").  *)
(* The scene type literals of the source are Cyrillic words; the module    *)
(* names them by their English meaning (TypeInterior, ...), since the      *)
(* constants only need to be pairwise distinct.                            *)
(***************************************************************************)
EXTENDS Naturals, Integers, Sequences, FiniteSets, TLC

(* ---------------------------------------------------------------------- *)
(* Bounds of the explored input space                                     *)
(* ---------------------------------------------------------------------- *)
MaxFrags == 5          \* a raw text is made of at most this many fragments
MaxTitleFrags == 4     \* a stand-alone title is made of at most this many

(* ---------------------------------------------------------------------- *)
(* Characters.  The classes below are those of CPython 3.11 (Unicode      *)
(* 14.0.0), listed in code point order.                                   *)
(* ---------------------------------------------------------------------- *)
NL == "\n"

\* the characters matched by \s, removed by str.strip() and separating the
\* words of str.split(): those with c.isspace()
Whitespace == {
    "\t", "\n", "U+000B", "\f", "\r", "U+001C", "U+001D", "U+001E", "U+001F",
    " ", "U+0085", "U+00A0", "U+1680", "U+2000", "U+2001", "U+2002", "U+2003",
    "U+2004", "U+2005", "U+2006", "U+2007", "U+2008", "U+2009", "U+200A",
    "U+2028", "U+2029", "U+202F", "U+205F", "U+3000"}

\* the characters matched by \d: the Unicode decimal digits
Digits == {
    "0", "1", "2", "3", "4", "5", "6", "7", "8", "9", "U+0660", "U+0661",
    "U+0662", "U+0663", "U+0664", "U+0665", "U+0666", "U+0667", "U+0668",
    "U+0669", "U+06F0", "U+06F1", "U+06F2", "U+06F3", "U+06F4", "U+06F5",
    "U+06F6", "U+06F7", "U+06F8", "U+06F9", "U+07C0", "U+07C1", "U+07C2",
    "U+07C3", "U+07C4", "U+07C5", "U+07C6", "U+07C7", "U+07C8", "U+07C9",
    "U+0966", "U+0967", "U+0968", "U+0969", "U+096A", "U+096B", "U+096C",
    "U+096D", "U+096E", "U+096F", "U+09E6", "U+09E7", "U+09E8", "U+09E9",
    "U+09EA", "U+09EB", "U+09EC", "U+09ED", "U+09EE", "U+09EF", "U+0A66",
    "U+0A67", "U+0A68", "U+0A69", "U+0A6A", "U+0A6B", "U+0A6C", "U+0A6D",
    "U+0A6E", "U+0A6F", "U+0AE6", "U+0AE7", "U+0AE8", "U+0AE9", "U+0AEA",
    "U+0AEB", "U+0AEC", "U+0AED", "U+0AEE", "U+0AEF", "U+0B66", "U+0B67",
    "U+0B68", "U+0B69", "U+0B6A", "U+0B6B", "U+0B6C", "U+0B6D", "U+0B6E",
    "U+0B6F", "U+0BE6", "U+0BE7", "U+0BE8", "U+0BE9", "U+0BEA", "U+0BEB",
    "U+0BEC", "U+0BED", "U+0BEE", "U+0BEF", "U+0C66", "U+0C67", "U+0C68",
    "U+0C69", "U+0C6A", "U+0C6B", "U+0C6C", "U+0C6D", "U+0C6E", "U+0C6F",
    "U+0CE6", "U+0CE7", "U+0CE8", "U+0CE9", "U+0CEA", "U+0CEB", "U+0CEC",
    "U+0CED", "U+0CEE", "U+0CEF", "U+0D66", "U+0D67", "U+0D68", "U+0D69",
    "U+0D6A", "U+0D6B", "U+0D6C", "U+0D6D", "U+0D6E", "U+0D6F", "U+0DE6",
    "U+0DE7", "U+0DE8", "U+0DE9", "U+0DEA", "U+0DEB", "U+0DEC", "U+0DED",
    "U+0DEE", "U+0DEF", "U+0E50", "U+0E51", "U+0E52", "U+0E53", "U+0E54",
    "U+0E55", "U+0E56", "U+0E57", "U+0E58", "U+0E59", "U+0ED0", "U+0ED1",
    "U+0ED2", "U+0ED3", "U+0ED4", "U+0ED5", "U+0ED6", "U+0ED7", "U+0ED8",
    "U+0ED9", "U+0F20", "U+0F21", "U+0F22", "U+0F23", "U+0F24", "U+0F25",
    "U+0F26", "U+0F27", "U+0F28", "U+0F29", "U+1040", "U+1041", "U+1042",
    "U+1043", "U+1044", "U+1045", "U+1046", "U+1047", "U+1048", "U+1049",
    "U+1090", "U+1091", "U+1092", "U+1093", "U+1094", "U+1095", "U+1096",
    "U+1097", "U+1098", "U+1099", "U+17E0", "U+17E1", "U+17E2", "U+17E3",
    "U+17E4", "U+17E5", "U+17E6", "U+17E7", "U+17E8", "U+17E9", "U+1810",
    "U+1811", "U+1812", "U+1813", "U+1814", "U+1815", "U+1816", "U+1817",
    "U+1818", "U+1819", "U+1946", "U+1947", "U+1948", "U+1949", "U+194A",
    "U+194B", "U+194C", "U+194D", "U+194E", "U+194F", "U+19D0", "U+19D1",
    "U+19D2", "U+19D3", "U+19D4", "U+19D5", "U+19D6", "U+19D7", "U+19D8",
    "U+19D9", "U+1A80", "U+1A81", "U+1A82", "U+1A83", "U+1A84", "U+1A85",
    "U+1A86", "U+1A87", "U+1A88", "U+1A89", "U+1A90", "U+1A91", "U+1A92",
    "U+1A93", "U+1A94", "U+1A95", "U+1A96", "U+1A97", "U+1A98", "U+1A99",
    "U+1B50", "U+1B51", "U+1B52", "U+1B53", "U+1B54", "U+1B55", "U+1B56",
    "U+1B57", "U+1B58", "U+1B59", "U+1BB0", "U+1BB1", "U+1BB2", "U+1BB3",
    "U+1BB4", "U+1BB5", "U+1BB6", "U+1BB7", "U+1BB8", "U+1BB9", "U+1C40",
    "U+1C41", "U+1C42", "U+1C43", "U+1C44", "U+1C45", "U+1C46", "U+1C47",
    "U+1C48", "U+1C49", "U+1C50", "U+1C51", "U+1C52", "U+1C53", "U+1C54",
    "U+1C55", "U+1C56", "U+1C57", "U+1C58", "U+1C59", "U+A620", "U+A621",
    "U+A622", "U+A623", "U+A624", "U+A625", "U+A626", "U+A627", "U+A628",
    "U+A629", "U+A8D0", "U+A8D1", "U+A8D2", "U+A8D3", "U+A8D4", "U+A8D5",
    "U+A8D6", "U+A8D7", "U+A8D8", "U+A8D9", "U+A900", "U+A901", "U+A902",
    "U+A903", "U+A904", "U+A905", "U+A906", "U+A907", "U+A908", "U+A909",
    "U+A9D0", "U+A9D1", "U+A9D2", "U+A9D3", "U+A9D4", "U+A9D5", "U+A9D6",
    "U+A9D7", "U+A9D8", "U+A9D9", "U+A9F0", "U+A9F1", "U+A9F2", "U+A9F3",
    "U+A9F4", "U+A9F5", "U+A9F6", "U+A9F7", "U+A9F8", "U+A9F9", "U+AA50",
    "U+AA51", "U+AA52", "U+AA53", "U+AA54", "U+AA55", "U+AA56", "U+AA57",
    "U+AA58", "U+AA59", "U+ABF0", "U+ABF1", "U+ABF2", "U+ABF3", "U+ABF4",
    "U+ABF5", "U+ABF6", "U+ABF7", "U+ABF8", "U+ABF9", "U+FF10", "U+FF11",
    "U+FF12", "U+FF13", "U+FF14", "U+FF15", "U+FF16", "U+FF17", "U+FF18",
    "U+FF19", "U+104A0", "U+104A1", "U+104A2", "U+104A3", "U+104A4",
    "U+104A5", "U+104A6", "U+104A7", "U+104A8", "U+104A9", "U+10D30",
    "U+10D31", "U+10D32", "U+10D33", "U+10D34", "U+10D35", "U+10D36",
    "U+10D37", "U+10D38", "U+10D39", "U+11066", "U+11067", "U+11068",
    "U+11069", "U+1106A", "U+1106B", "U+1106C", "U+1106D", "U+1106E",
    "U+1106F", "U+110F0", "U+110F1", "U+110F2", "U+110F3", "U+110F4",
    "U+110F5", "U+110F6", "U+110F7", "U+110F8", "U+110F9", "U+11136",
    "U+11137", "U+11138", "U+11139", "U+1113A", "U+1113B", "U+1113C",
    "U+1113D", "U+1113E", "U+1113F", "U+111D0", "U+111D1", "U+111D2",
    "U+111D3", "U+111D4", "U+111D5", "U+111D6", "U+111D7", "U+111D8",
    "U+111D9", "U+112F0", "U+112F1", "U+112F2", "U+112F3", "U+112F4",
    "U+112F5", "U+112F6", "U+112F7", "U+112F8", "U+112F9", "U+11450",
    "U+11451", "U+11452", "U+11453", "U+11454", "U+11455", "U+11456",
    "U+11457", "U+11458", "U+11459", "U+114D0", "U+114D1", "U+114D2",
    "U+114D3", "U+114D4", "U+114D5", "U+114D6", "U+114D7", "U+114D8",
    "U+114D9", "U+11650", "U+11651", "U+11652", "U+11653", "U+11654",
    "U+11655", "U+11656", "U+11657", "U+11658", "U+11659", "U+116C0",
    "U+116C1", "U+116C2", "U+116C3", "U+116C4", "U+116C5", "U+116C6",
    "U+116C7", "U+116C8", "U+116C9", "U+11730", "U+11731", "U+11732",
    "U+11733", "U+11734", "U+11735", "U+11736", "U+11737", "U+11738",
    "U+11739", "U+118E0", "U+118E1", "U+118E2", "U+118E3", "U+118E4",
    "U+118E5", "U+118E6", "U+118E7", "U+118E8", "U+118E9", "U+11950",
    "U+11951", "U+11952", "U+11953", "U+11954", "U+11955", "U+11956",
    "U+11957", "U+11958", "U+11959", "U+11C50", "U+11C51", "U+11C52",
    "U+11C53", "U+11C54", "U+11C55", "U+11C56", "U+11C57", "U+11C58",
    "U+11C59", "U+11D50", "U+11D51", "U+11D52", "U+11D53", "U+11D54",
    "U+11D55", "U+11D56", "U+11D57", "U+11D58", "U+11D59", "U+11DA0",
    "U+11DA1", "U+11DA2", "U+11DA3", "U+11DA4", "U+11DA5", "U+11DA6",
    "U+11DA7", "U+11DA8", "U+11DA9", "U+16A60", "U+16A61", "U+16A62",
    "U+16A63", "U+16A64", "U+16A65", "U+16A66", "U+16A67", "U+16A68",
    "U+16A69", "U+16AC0", "U+16AC1", "U+16AC2", "U+16AC3", "U+16AC4",
    "U+16AC5", "U+16AC6", "U+16AC7", "U+16AC8", "U+16AC9", "U+16B50",
    "U+16B51", "U+16B52", "U+16B53", "U+16B54", "U+16B55", "U+16B56",
    "U+16B57", "U+16B58", "U+16B59", "U+1D7CE", "U+1D7CF", "U+1D7D0",
    "U+1D7D1", "U+1D7D2", "U+1D7D3", "U+1D7D4", "U+1D7D5", "U+1D7D6",
    "U+1D7D7", "U+1D7D8", "U+1D7D9", "U+1D7DA", "U+1D7DB", "U+1D7DC",
    "U+1D7DD", "U+1D7DE", "U+1D7DF", "U+1D7E0", "U+1D7E1", "U+1D7E2",
    "U+1D7E3", "U+1D7E4", "U+1D7E5", "U+1D7E6", "U+1D7E7", "U+1D7E8",
    "U+1D7E9", "U+1D7EA", "U+1D7EB", "U+1D7EC", "U+1D7ED", "U+1D7EE",
    "U+1D7EF", "U+1D7F0", "U+1D7F1", "U+1D7F2", "U+1D7F3", "U+1D7F4",
    "U+1D7F5", "U+1D7F6", "U+1D7F7", "U+1D7F8", "U+1D7F9", "U+1D7FA",
    "U+1D7FB", "U+1D7FC", "U+1D7FD", "U+1D7FE", "U+1D7FF", "U+1E140",
    "U+1E141", "U+1E142", "U+1E143", "U+1E144", "U+1E145", "U+1E146",
    "U+1E147", "U+1E148", "U+1E149", "U+1E2F0", "U+1E2F1", "U+1E2F2",
    "U+1E2F3", "U+1E2F4", "U+1E2F5", "U+1E2F6", "U+1E2F7", "U+1E2F8",
    "U+1E2F9", "U+1E950", "U+1E951", "U+1E952", "U+1E953", "U+1E954",
    "U+1E955", "U+1E956", "U+1E957", "U+1E958", "U+1E959", "U+1FBF0",
    "U+1FBF1", "U+1FBF2", "U+1FBF3", "U+1FBF4", "U+1FBF5", "U+1FBF6",
    "U+1FBF7", "U+1FBF8", "U+1FBF9"}

\* the characters matched by [U+0430-U+044F U+0451 a-z] under re.IGNORECASE: a-z and
\* U+0430-U+044F, U+0451, and every character that case-folds onto one of them
Letters == {
    "A", "B", "C", "D", "E", "F", "G", "H", "I", "J", "K", "L", "M", "N", "O",
    "P", "Q", "R", "S", "T", "U", "V", "W", "X", "Y", "Z", "a", "b", "c", "d",
    "e", "f", "g", "h", "i", "j", "k", "l", "m", "n", "o", "p", "q", "r", "s",
    "t", "u", "v", "w", "x", "y", "z", "U+0130", "U+0131", "U+017F", "U+0401",
    "U+0410", "U+0411", "U+0412", "U+0413", "U+0414", "U+0415", "U+0416",
    "U+0417", "U+0418", "U+0419", "U+041A", "U+041B", "U+041C", "U+041D",
    "U+041E", "U+041F", "U+0420", "U+0421", "U+0422", "U+0423", "U+0424",
    "U+0425", "U+0426", "U+0427", "U+0428", "U+0429", "U+042A", "U+042B",
    "U+042C", "U+042D", "U+042E", "U+042F", "U+0430", "U+0431", "U+0432",
    "U+0433", "U+0434", "U+0435", "U+0436", "U+0437", "U+0438", "U+0439",
    "U+043A", "U+043B", "U+043C", "U+043D", "U+043E", "U+043F", "U+0440",
    "U+0441", "U+0442", "U+0443", "U+0444", "U+0445", "U+0446", "U+0447",
    "U+0448", "U+0449", "U+044A", "U+044B", "U+044C", "U+044D", "U+044E",
    "U+044F", "U+0451", "U+1C80", "U+1C81", "U+1C82", "U+1C83", "U+1C84",
    "U+1C85", "U+1C86", "U+212A"}

\* the characters c with c.isupper()
UpperCaseChars == {
    "A", "B", "C", "D", "E", "F", "G", "H", "I", "J", "K", "L", "M", "N", "O",
    "P", "Q", "R", "S", "T", "U", "V", "W", "X", "Y", "Z", "U+00C0", "U+00C1",
    "U+00C2", "U+00C3", "U+00C4", "U+00C5", "U+00C6", "U+00C7", "U+00C8",
    "U+00C9", "U+00CA", "U+00CB", "U+00CC", "U+00CD", "U+00CE", "U+00CF",
    "U+00D0", "U+00D1", "U+00D2", "U+00D3", "U+00D4", "U+00D5", "U+00D6",
    "U+00D8", "U+00D9", "U+00DA", "U+00DB", "U+00DC", "U+00DD", "U+00DE",
    "U+0100", "U+0102", "U+0104", "U+0106", "U+0108", "U+010A", "U+010C",
    "U+010E", "U+0110", "U+0112", "U+0114", "U+0116", "U+0118", "U+011A",
    "U+011C", "U+011E", "U+0120", "U+0122", "U+0124", "U+0126", "U+0128",
    "U+012A", "U+012C", "U+012E", "U+0130", "U+0132", "U+0134", "U+0136",
    "U+0139", "U+013B", "U+013D", "U+013F", "U+0141", "U+0143", "U+0145",
    "U+0147", "U+014A", "U+014C", "U+014E", "U+0150", "U+0152", "U+0154",
    "U+0156", "U+0158", "U+015A", "U+015C", "U+015E", "U+0160", "U+0162",
    "U+0164", "U+0166", "U+0168", "U+016A", "U+016C", "U+016E", "U+0170",
    "U+0172", "U+0174", "U+0176", "U+0178", "U+0179", "U+017B", "U+017D",
    "U+0181", "U+0182", "U+0184", "U+0186", "U+0187", "U+0189", "U+018A",
    "U+018B", "U+018E", "U+018F", "U+0190", "U+0191", "U+0193", "U+0194",
    "U+0196", "U+0197", "U+0198", "U+019C", "U+019D", "U+019F", "U+01A0",
    "U+01A2", "U+01A4", "U+01A6", "U+01A7", "U+01A9", "U+01AC", "U+01AE",
    "U+01AF", "U+01B1", "U+01B2", "U+01B3", "U+01B5", "U+01B7", "U+01B8",
    "U+01BC", "U+01C4", "U+01C7", "U+01CA", "U+01CD", "U+01CF", "U+01D1",
    "U+01D3", "U+01D5", "U+01D7", "U+01D9", "U+01DB", "U+01DE", "U+01E0",
    "U+01E2", "U+01E4", "U+01E6", "U+01E8", "U+01EA", "U+01EC", "U+01EE",
    "U+01F1", "U+01F4", "U+01F6", "U+01F7", "U+01F8", "U+01FA", "U+01FC",
    "U+01FE", "U+0200", "U+0202", "U+0204", "U+0206", "U+0208", "U+020A",
    "U+020C", "U+020E", "U+0210", "U+0212", "U+0214", "U+0216", "U+0218",
    "U+021A", "U+021C", "U+021E", "U+0220", "U+0222", "U+0224", "U+0226",
    "U+0228", "U+022A", "U+022C", "U+022E", "U+0230", "U+0232", "U+023A",
    "U+023B", "U+023D", "U+023E", "U+0241", "U+0243", "U+0244", "U+0245",
    "U+0246", "U+0248", "U+024A", "U+024C", "U+024E", "U+0370", "U+0372",
    "U+0376", "U+037F", "U+0386", "U+0388", "U+0389", "U+038A", "U+038C",
    "U+038E", "U+038F", "U+0391", "U+0392", "U+0393", "U+0394", "U+0395",
    "U+0396", "U+0397", "U+0398", "U+0399", "U+039A", "U+039B", "U+039C",
    "U+039D", "U+039E", "U+039F", "U+03A0", "U+03A1", "U+03A3", "U+03A4",
    "U+03A5", "U+03A6", "U+03A7", "U+03A8", "U+03A9", "U+03AA", "U+03AB",
    "U+03CF", "U+03D2", "U+03D3", "U+03D4", "U+03D8", "U+03DA", "U+03DC",
    "U+03DE", "U+03E0", "U+03E2", "U+03E4", "U+03E6", "U+03E8", "U+03EA",
    "U+03EC", "U+03EE", "U+03F4", "U+03F7", "U+03F9", "U+03FA", "U+03FD",
    "U+03FE", "U+03FF", "U+0400", "U+0401", "U+0402", "U+0403", "U+0404",
    "U+0405", "U+0406", "U+0407", "U+0408", "U+0409", "U+040A", "U+040B",
    "U+040C", "U+040D", "U+040E", "U+040F", "U+0410", "U+0411", "U+0412",
    "U+0413", "U+0414", "U+0415", "U+0416", "U+0417", "U+0418", "U+0419",
    "U+041A", "U+041B", "U+041C", "U+041D", "U+041E", "U+041F", "U+0420",
    "U+0421", "U+0422", "U+0423", "U+0424", "U+0425", "U+0426", "U+0427",
    "U+0428", "U+0429", "U+042A", "U+042B", "U+042C", "U+042D", "U+042E",
    "U+042F", "U+0460", "U+0462", "U+0464", "U+0466", "U+0468", "U+046A",
    "U+046C", "U+046E", "U+0470", "U+0472", "U+0474", "U+0476", "U+0478",
    "U+047A", "U+047C", "U+047E", "U+0480", "U+048A", "U+048C", "U+048E",
    "U+0490", "U+0492", "U+0494", "U+0496", "U+0498", "U+049A", "U+049C",
    "U+049E", "U+04A0", "U+04A2", "U+04A4", "U+04A6", "U+04A8", "U+04AA",
    "U+04AC", "U+04AE", "U+04B0", "U+04B2", "U+04B4", "U+04B6", "U+04B8",
    "U+04BA", "U+04BC", "U+04BE", "U+04C0", "U+04C1", "U+04C3", "U+04C5",
    "U+04C7", "U+04C9", "U+04CB", "U+04CD", "U+04D0", "U+04D2", "U+04D4",
    "U+04D6", "U+04D8", "U+04DA", "U+04DC", "U+04DE", "U+04E0", "U+04E2",
    "U+04E4", "U+04E6", "U+04E8", "U+04EA", "U+04EC", "U+04EE", "U+04F0",
    "U+04F2", "U+04F4", "U+04F6", "U+04F8", "U+04FA", "U+04FC", "U+04FE",
    "U+0500", "U+0502", "U+0504", "U+0506", "U+0508", "U+050A", "U+050C",
    "U+050E", "U+0510", "U+0512", "U+0514", "U+0516", "U+0518", "U+051A",
    "U+051C", "U+051E", "U+0520", "U+0522", "U+0524", "U+0526", "U+0528",
    "U+052A", "U+052C", "U+052E", "U+0531", "U+0532", "U+0533", "U+0534",
    "U+0535", "U+0536", "U+0537", "U+0538", "U+0539", "U+053A", "U+053B",
    "U+053C", "U+053D", "U+053E", "U+053F", "U+0540", "U+0541", "U+0542",
    "U+0543", "U+0544", "U+0545", "U+0546", "U+0547", "U+0548", "U+0549",
    "U+054A", "U+054B", "U+054C", "U+054D", "U+054E", "U+054F", "U+0550",
    "U+0551", "U+0552", "U+0553", "U+0554", "U+0555", "U+0556", "U+10A0",
    "U+10A1", "U+10A2", "U+10A3", "U+10A4", "U+10A5", "U+10A6", "U+10A7",
    "U+10A8", "U+10A9", "U+10AA", "U+10AB", "U+10AC", "U+10AD", "U+10AE",
    "U+10AF", "U+10B0", "U+10B1", "U+10B2", "U+10B3", "U+10B4", "U+10B5",
    "U+10B6", "U+10B7", "U+10B8", "U+10B9", "U+10BA", "U+10BB", "U+10BC",
    "U+10BD", "U+10BE", "U+10BF", "U+10C0", "U+10C1", "U+10C2", "U+10C3",
    "U+10C4", "U+10C5", "U+10C7", "U+10CD", "U+13A0", "U+13A1", "U+13A2",
    "U+13A3", "U+13A4", "U+13A5", "U+13A6", "U+13A7", "U+13A8", "U+13A9",
    "U+13AA", "U+13AB", "U+13AC", "U+13AD", "U+13AE", "U+13AF", "U+13B0",
    "U+13B1", "U+13B2", "U+13B3", "U+13B4", "U+13B5", "U+13B6", "U+13B7",
    "U+13B8", "U+13B9", "U+13BA", "U+13BB", "U+13BC", "U+13BD", "U+13BE",
    "U+13BF", "U+13C0", "U+13C1", "U+13C2", "U+13C3", "U+13C4", "U+13C5",
    "U+13C6", "U+13C7", "U+13C8", "U+13C9", "U+13CA", "U+13CB", "U+13CC",
    "U+13CD", "U+13CE", "U+13CF", "U+13D0", "U+13D1", "U+13D2", "U+13D3",
    "U+13D4", "U+13D5", "U+13D6", "U+13D7", "U+13D8", "U+13D9", "U+13DA",
    "U+13DB", "U+13DC", "U+13DD", "U+13DE", "U+13DF", "U+13E0", "U+13E1",
    "U+13E2", "U+13E3", "U+13E4", "U+13E5", "U+13E6", "U+13E7", "U+13E8",
    "U+13E9", "U+13EA", "U+13EB", "U+13EC", "U+13ED", "U+13EE", "U+13EF",
    "U+13F0", "U+13F1", "U+13F2", "U+13F3", "U+13F4", "U+13F5", "U+1C90",
    "U+1C91", "U+1C92", "U+1C93", "U+1C94", "U+1C95", "U+1C96", "U+1C97",
    "U+1C98", "U+1C99", "U+1C9A", "U+1C9B", "U+1C9C", "U+1C9D", "U+1C9E",
    "U+1C9F", "U+1CA0", "U+1CA1", "U+1CA2", "U+1CA3", "U+1CA4", "U+1CA5",
    "U+1CA6", "U+1CA7", "U+1CA8", "U+1CA9", "U+1CAA", "U+1CAB", "U+1CAC",
    "U+1CAD", "U+1CAE", "U+1CAF", "U+1CB0", "U+1CB1", "U+1CB2", "U+1CB3",
    "U+1CB4", "U+1CB5", "U+1CB6", "U+1CB7", "U+1CB8", "U+1CB9", "U+1CBA",
    "U+1CBD", "U+1CBE", "U+1CBF", "U+1E00", "U+1E02", "U+1E04", "U+1E06",
    "U+1E08", "U+1E0A", "U+1E0C", "U+1E0E", "U+1E10", "U+1E12", "U+1E14",
    "U+1E16", "U+1E18", "U+1E1A", "U+1E1C", "U+1E1E", "U+1E20", "U+1E22",
    "U+1E24", "U+1E26", "U+1E28", "U+1E2A", "U+1E2C", "U+1E2E", "U+1E30",
    "U+1E32", "U+1E34", "U+1E36", "U+1E38", "U+1E3A", "U+1E3C", "U+1E3E",
    "U+1E40", "U+1E42", "U+1E44", "U+1E46", "U+1E48", "U+1E4A", "U+1E4C",
    "U+1E4E", "U+1E50", "U+1E52", "U+1E54", "U+1E56", "U+1E58", "U+1E5A",
    "U+1E5C", "U+1E5E", "U+1E60", "U+1E62", "U+1E64", "U+1E66", "U+1E68",
    "U+1E6A", "U+1E6C", "U+1E6E", "U+1E70", "U+1E72", "U+1E74", "U+1E76",
    "U+1E78", "U+1E7A", "U+1E7C", "U+1E7E", "U+1E80", "U+1E82", "U+1E84",
    "U+1E86", "U+1E88", "U+1E8A", "U+1E8C", "U+1E8E", "U+1E90", "U+1E92",
    "U+1E94", "U+1E9E", "U+1EA0", "U+1EA2", "U+1EA4", "U+1EA6", "U+1EA8",
    "U+1EAA", "U+1EAC", "U+1EAE", "U+1EB0", "U+1EB2", "U+1EB4", "U+1EB6",
    "U+1EB8", "U+1EBA", "U+1EBC", "U+1EBE", "U+1EC0", "U+1EC2", "U+1EC4",
    "U+1EC6", "U+1EC8", "U+1ECA", "U+1ECC", "U+1ECE", "U+1ED0", "U+1ED2",
    "U+1ED4", "U+1ED6", "U+1ED8", "U+1EDA", "U+1EDC", "U+1EDE", "U+1EE0",
    "U+1EE2", "U+1EE4", "U+1EE6", "U+1EE8", "U+1EEA", "U+1EEC", "U+1EEE",
    "U+1EF0", "U+1EF2", "U+1EF4", "U+1EF6", "U+1EF8", "U+1EFA", "U+1EFC",
    "U+1EFE", "U+1F08", "U+1F09", "U+1F0A", "U+1F0B", "U+1F0C", "U+1F0D",
    "U+1F0E", "U+1F0F", "U+1F18", "U+1F19", "U+1F1A", "U+1F1B", "U+1F1C",
    "U+1F1D", "U+1F28", "U+1F29", "U+1F2A", "U+1F2B", "U+1F2C", "U+1F2D",
    "U+1F2E", "U+1F2F", "U+1F38", "U+1F39", "U+1F3A", "U+1F3B", "U+1F3C",
    "U+1F3D", "U+1F3E", "U+1F3F", "U+1F48", "U+1F49", "U+1F4A", "U+1F4B",
    "U+1F4C", "U+1F4D", "U+1F59", "U+1F5B", "U+1F5D", "U+1F5F", "U+1F68",
    "U+1F69", "U+1F6A", "U+1F6B", "U+1F6C", "U+1F6D", "U+1F6E", "U+1F6F",
    "U+1FB8", "U+1FB9", "U+1FBA", "U+1FBB", "U+1FC8", "U+1FC9", "U+1FCA",
    "U+1FCB", "U+1FD8", "U+1FD9", "U+1FDA", "U+1FDB", "U+1FE8", "U+1FE9",
    "U+1FEA", "U+1FEB", "U+1FEC", "U+1FF8", "U+1FF9", "U+1FFA", "U+1FFB",
    "U+2102", "U+2107", "U+210B", "U+210C", "U+210D", "U+2110", "U+2111",
    "U+2112", "U+2115", "U+2119", "U+211A", "U+211B", "U+211C", "U+211D",
    "U+2124", "U+2126", "U+2128", "U+212A", "U+212B", "U+212C", "U+212D",
    "U+2130", "U+2131", "U+2132", "U+2133", "U+213E", "U+213F", "U+2145",
    "U+2160", "U+2161", "U+2162", "U+2163", "U+2164", "U+2165", "U+2166",
    "U+2167", "U+2168", "U+2169", "U+216A", "U+216B", "U+216C", "U+216D",
    "U+216E", "U+216F", "U+2183", "U+24B6", "U+24B7", "U+24B8", "U+24B9",
    "U+24BA", "U+24BB", "U+24BC", "U+24BD", "U+24BE", "U+24BF", "U+24C0",
    "U+24C1", "U+24C2", "U+24C3", "U+24C4", "U+24C5", "U+24C6", "U+24C7",
    "U+24C8", "U+24C9", "U+24CA", "U+24CB", "U+24CC", "U+24CD", "U+24CE",
    "U+24CF", "U+2C00", "U+2C01", "U+2C02", "U+2C03", "U+2C04", "U+2C05",
    "U+2C06", "U+2C07", "U+2C08", "U+2C09", "U+2C0A", "U+2C0B", "U+2C0C",
    "U+2C0D", "U+2C0E", "U+2C0F", "U+2C10", "U+2C11", "U+2C12", "U+2C13",
    "U+2C14", "U+2C15", "U+2C16", "U+2C17", "U+2C18", "U+2C19", "U+2C1A",
    "U+2C1B", "U+2C1C", "U+2C1D", "U+2C1E", "U+2C1F", "U+2C20", "U+2C21",
    "U+2C22", "U+2C23", "U+2C24", "U+2C25", "U+2C26", "U+2C27", "U+2C28",
    "U+2C29", "U+2C2A", "U+2C2B", "U+2C2C", "U+2C2D", "U+2C2E", "U+2C2F",
    "U+2C60", "U+2C62", "U+2C63", "U+2C64", "U+2C67", "U+2C69", "U+2C6B",
    "U+2C6D", "U+2C6E", "U+2C6F", "U+2C70", "U+2C72", "U+2C75", "U+2C7E",
    "U+2C7F", "U+2C80", "U+2C82", "U+2C84", "U+2C86", "U+2C88", "U+2C8A",
    "U+2C8C", "U+2C8E", "U+2C90", "U+2C92", "U+2C94", "U+2C96", "U+2C98",
    "U+2C9A", "U+2C9C", "U+2C9E", "U+2CA0", "U+2CA2", "U+2CA4", "U+2CA6",
    "U+2CA8", "U+2CAA", "U+2CAC", "U+2CAE", "U+2CB0", "U+2CB2", "U+2CB4",
    "U+2CB6", "U+2CB8", "U+2CBA", "U+2CBC", "U+2CBE", "U+2CC0", "U+2CC2",
    "U+2CC4", "U+2CC6", "U+2CC8", "U+2CCA", "U+2CCC", "U+2CCE", "U+2CD0",
    "U+2CD2", "U+2CD4", "U+2CD6", "U+2CD8", "U+2CDA", "U+2CDC", "U+2CDE",
    "U+2CE0", "U+2CE2", "U+2CEB", "U+2CED", "U+2CF2", "U+A640", "U+A642",
    "U+A644", "U+A646", "U+A648", "U+A64A", "U+A64C", "U+A64E", "U+A650",
    "U+A652", "U+A654", "U+A656", "U+A658", "U+A65A", "U+A65C", "U+A65E",
    "U+A660", "U+A662", "U+A664", "U+A666", "U+A668", "U+A66A", "U+A66C",
    "U+A680", "U+A682", "U+A684", "U+A686", "U+A688", "U+A68A", "U+A68C",
    "U+A68E", "U+A690", "U+A692", "U+A694", "U+A696", "U+A698", "U+A69A",
    "U+A722", "U+A724", "U+A726", "U+A728", "U+A72A", "U+A72C", "U+A72E",
    "U+A732", "U+A734", "U+A736", "U+A738", "U+A73A", "U+A73C", "U+A73E",
    "U+A740", "U+A742", "U+A744", "U+A746", "U+A748", "U+A74A", "U+A74C",
    "U+A74E", "U+A750", "U+A752", "U+A754", "U+A756", "U+A758", "U+A75A",
    "U+A75C", "U+A75E", "U+A760", "U+A762", "U+A764", "U+A766", "U+A768",
    "U+A76A", "U+A76C", "U+A76E", "U+A779", "U+A77B", "U+A77D", "U+A77E",
    "U+A780", "U+A782", "U+A784", "U+A786", "U+A78B", "U+A78D", "U+A790",
    "U+A792", "U+A796", "U+A798", "U+A79A", "U+A79C", "U+A79E", "U+A7A0",
    "U+A7A2", "U+A7A4", "U+A7A6", "U+A7A8", "U+A7AA", "U+A7AB", "U+A7AC",
    "U+A7AD", "U+A7AE", "U+A7B0", "U+A7B1", "U+A7B2", "U+A7B3", "U+A7B4",
    "U+A7B6", "U+A7B8", "U+A7BA", "U+A7BC", "U+A7BE", "U+A7C0", "U+A7C2",
    "U+A7C4", "U+A7C5", "U+A7C6", "U+A7C7", "U+A7C9", "U+A7D0", "U+A7D6",
    "U+A7D8", "U+A7F5", "U+FF21", "U+FF22", "U+FF23", "U+FF24", "U+FF25",
    "U+FF26", "U+FF27", "U+FF28", "U+FF29", "U+FF2A", "U+FF2B", "U+FF2C",
    "U+FF2D", "U+FF2E", "U+FF2F", "U+FF30", "U+FF31", "U+FF32", "U+FF33",
    "U+FF34", "U+FF35", "U+FF36", "U+FF37", "U+FF38", "U+FF39", "U+FF3A",
    "U+10400", "U+10401", "U+10402", "U+10403", "U+10404", "U+10405",
    "U+10406", "U+10407", "U+10408", "U+10409", "U+1040A", "U+1040B",
    "U+1040C", "U+1040D", "U+1040E", "U+1040F", "U+10410", "U+10411",
    "U+10412", "U+10413", "U+10414", "U+10415", "U+10416", "U+10417",
    "U+10418", "U+10419", "U+1041A", "U+1041B", "U+1041C", "U+1041D",
    "U+1041E", "U+1041F", "U+10420", "U+10421", "U+10422", "U+10423",
    "U+10424", "U+10425", "U+10426", "U+10427", "U+104B0", "U+104B1",
    "U+104B2", "U+104B3", "U+104B4", "U+104B5", "U+104B6", "U+104B7",
    "U+104B8", "U+104B9", "U+104BA", "U+104BB", "U+104BC", "U+104BD",
    "U+104BE", "U+104BF", "U+104C0", "U+104C1", "U+104C2", "U+104C3",
    "U+104C4", "U+104C5", "U+104C6", "U+104C7", "U+104C8", "U+104C9",
    "U+104CA", "U+104CB", "U+104CC", "U+104CD", "U+104CE", "U+104CF",
    "U+104D0", "U+104D1", "U+104D2", "U+104D3", "U+10570", "U+10571",
    "U+10572", "U+10573", "U+10574", "U+10575", "U+10576", "U+10577",
    "U+10578", "U+10579", "U+1057A", "U+1057C", "U+1057D", "U+1057E",
    "U+1057F", "U+10580", "U+10581", "U+10582", "U+10583", "U+10584",
    "U+10585", "U+10586", "U+10587", "U+10588", "U+10589", "U+1058A",
    "U+1058C", "U+1058D", "U+1058E", "U+1058F", "U+10590", "U+10591",
    "U+10592", "U+10594", "U+10595", "U+10C80", "U+10C81", "U+10C82",
    "U+10C83", "U+10C84", "U+10C85", "U+10C86", "U+10C87", "U+10C88",
    "U+10C89", "U+10C8A", "U+10C8B", "U+10C8C", "U+10C8D", "U+10C8E",
    "U+10C8F", "U+10C90", "U+10C91", "U+10C92", "U+10C93", "U+10C94",
    "U+10C95", "U+10C96", "U+10C97", "U+10C98", "U+10C99", "U+10C9A",
    "U+10C9B", "U+10C9C", "U+10C9D", "U+10C9E", "U+10C9F", "U+10CA0",
    "U+10CA1", "U+10CA2", "U+10CA3", "U+10CA4", "U+10CA5", "U+10CA6",
    "U+10CA7", "U+10CA8", "U+10CA9", "U+10CAA", "U+10CAB", "U+10CAC",
    "U+10CAD", "U+10CAE", "U+10CAF", "U+10CB0", "U+10CB1", "U+10CB2",
    "U+118A0", "U+118A1", "U+118A2", "U+118A3", "U+118A4", "U+118A5",
    "U+118A6", "U+118A7", "U+118A8", "U+118A9", "U+118AA", "U+118AB",
    "U+118AC", "U+118AD", "U+118AE", "U+118AF", "U+118B0", "U+118B1",
    "U+118B2", "U+118B3", "U+118B4", "U+118B5", "U+118B6", "U+118B7",
    "U+118B8", "U+118B9", "U+118BA", "U+118BB", "U+118BC", "U+118BD",
    "U+118BE", "U+118BF", "U+16E40", "U+16E41", "U+16E42", "U+16E43",
    "U+16E44", "U+16E45", "U+16E46", "U+16E47", "U+16E48", "U+16E49",
    "U+16E4A", "U+16E4B", "U+16E4C", "U+16E4D", "U+16E4E", "U+16E4F",
    "U+16E50", "U+16E51", "U+16E52", "U+16E53", "U+16E54", "U+16E55",
    "U+16E56", "U+16E57", "U+16E58", "U+16E59", "U+16E5A", "U+16E5B",
    "U+16E5C", "U+16E5D", "U+16E5E", "U+16E5F", "U+1D400", "U+1D401",
    "U+1D402", "U+1D403", "U+1D404", "U+1D405", "U+1D406", "U+1D407",
    "U+1D408", "U+1D409", "U+1D40A", "U+1D40B", "U+1D40C", "U+1D40D",
    "U+1D40E", "U+1D40F", "U+1D410", "U+1D411", "U+1D412", "U+1D413",
    "U+1D414", "U+1D415", "U+1D416", "U+1D417", "U+1D418", "U+1D419",
    "U+1D434", "U+1D435", "U+1D436", "U+1D437", "U+1D438", "U+1D439",
    "U+1D43A", "U+1D43B", "U+1D43C", "U+1D43D", "U+1D43E", "U+1D43F",
    "U+1D440", "U+1D441", "U+1D442", "U+1D443", "U+1D444", "U+1D445",
    "U+1D446", "U+1D447", "U+1D448", "U+1D449", "U+1D44A", "U+1D44B",
    "U+1D44C", "U+1D44D", "U+1D468", "U+1D469", "U+1D46A", "U+1D46B",
    "U+1D46C", "U+1D46D", "U+1D46E", "U+1D46F", "U+1D470", "U+1D471",
    "U+1D472", "U+1D473", "U+1D474", "U+1D475", "U+1D476", "U+1D477",
    "U+1D478", "U+1D479", "U+1D47A", "U+1D47B", "U+1D47C", "U+1D47D",
    "U+1D47E", "U+1D47F", "U+1D480", "U+1D481", "U+1D49C", "U+1D49E",
    "U+1D49F", "U+1D4A2", "U+1D4A5", "U+1D4A6", "U+1D4A9", "U+1D4AA",
    "U+1D4AB", "U+1D4AC", "U+1D4AE", "U+1D4AF", "U+1D4B0", "U+1D4B1",
    "U+1D4B2", "U+1D4B3", "U+1D4B4", "U+1D4B5", "U+1D4D0", "U+1D4D1",
    "U+1D4D2", "U+1D4D3", "U+1D4D4", "U+1D4D5", "U+1D4D6", "U+1D4D7",
    "U+1D4D8", "U+1D4D9", "U+1D4DA", "U+1D4DB", "U+1D4DC", "U+1D4DD",
    "U+1D4DE", "U+1D4DF", "U+1D4E0", "U+1D4E1", "U+1D4E2", "U+1D4E3",
    "U+1D4E4", "U+1D4E5", "U+1D4E6", "U+1D4E7", "U+1D4E8", "U+1D4E9",
    "U+1D504", "U+1D505", "U+1D507", "U+1D508", "U+1D509", "U+1D50A",
    "U+1D50D", "U+1D50E", "U+1D50F", "U+1D510", "U+1D511", "U+1D512",
    "U+1D513", "U+1D514", "U+1D516", "U+1D517", "U+1D518", "U+1D519",
    "U+1D51A", "U+1D51B", "U+1D51C", "U+1D538", "U+1D539", "U+1D53B",
    "U+1D53C", "U+1D53D", "U+1D53E", "U+1D540", "U+1D541", "U+1D542",
    "U+1D543", "U+1D544", "U+1D546", "U+1D54A", "U+1D54B", "U+1D54C",
    "U+1D54D", "U+1D54E", "U+1D54F", "U+1D550", "U+1D56C", "U+1D56D",
    "U+1D56E", "U+1D56F", "U+1D570", "U+1D571", "U+1D572", "U+1D573",
    "U+1D574", "U+1D575", "U+1D576", "U+1D577", "U+1D578", "U+1D579",
    "U+1D57A", "U+1D57B", "U+1D57C", "U+1D57D", "U+1D57E", "U+1D57F",
    "U+1D580", "U+1D581", "U+1D582", "U+1D583", "U+1D584", "U+1D585",
    "U+1D5A0", "U+1D5A1", "U+1D5A2", "U+1D5A3", "U+1D5A4", "U+1D5A5",
    "U+1D5A6", "U+1D5A7", "U+1D5A8", "U+1D5A9", "U+1D5AA", "U+1D5AB",
    "U+1D5AC", "U+1D5AD", "U+1D5AE", "U+1D5AF", "U+1D5B0", "U+1D5B1",
    "U+1D5B2", "U+1D5B3", "U+1D5B4", "U+1D5B5", "U+1D5B6", "U+1D5B7",
    "U+1D5B8", "U+1D5B9", "U+1D5D4", "U+1D5D5", "U+1D5D6", "U+1D5D7",
    "U+1D5D8", "U+1D5D9", "U+1D5DA", "U+1D5DB", "U+1D5DC", "U+1D5DD",
    "U+1D5DE", "U+1D5DF", "U+1D5E0", "U+1D5E1", "U+1D5E2", "U+1D5E3",
    "U+1D5E4", "U+1D5E5", "U+1D5E6", "U+1D5E7", "U+1D5E8", "U+1D5E9",
    "U+1D5EA", "U+1D5EB", "U+1D5EC", "U+1D5ED", "U+1D608", "U+1D609",
    "U+1D60A", "U+1D60B", "U+1D60C", "U+1D60D", "U+1D60E", "U+1D60F",
    "U+1D610", "U+1D611", "U+1D612", "U+1D613", "U+1D614", "U+1D615",
    "U+1D616", "U+1D617", "U+1D618", "U+1D619", "U+1D61A", "U+1D61B",
    "U+1D61C", "U+1D61D", "U+1D61E", "U+1D61F", "U+1D620", "U+1D621",
    "U+1D63C", "U+1D63D", "U+1D63E", "U+1D63F", "U+1D640", "U+1D641",
    "U+1D642", "U+1D643", "U+1D644", "U+1D645", "U+1D646", "U+1D647",
    "U+1D648", "U+1D649", "U+1D64A", "U+1D64B", "U+1D64C", "U+1D64D",
    "U+1D64E", "U+1D64F", "U+1D650", "U+1D651", "U+1D652", "U+1D653",
    "U+1D654", "U+1D655", "U+1D670", "U+1D671", "U+1D672", "U+1D673",
    "U+1D674", "U+1D675", "U+1D676", "U+1D677", "U+1D678", "U+1D679",
    "U+1D67A", "U+1D67B", "U+1D67C", "U+1D67D", "U+1D67E", "U+1D67F",
    "U+1D680", "U+1D681", "U+1D682", "U+1D683", "U+1D684", "U+1D685",
    "U+1D686", "U+1D687", "U+1D688", "U+1D689", "U+1D6A8", "U+1D6A9",
    "U+1D6AA", "U+1D6AB", "U+1D6AC", "U+1D6AD", "U+1D6AE", "U+1D6AF",
    "U+1D6B0", "U+1D6B1", "U+1D6B2", "U+1D6B3", "U+1D6B4", "U+1D6B5",
    "U+1D6B6", "U+1D6B7", "U+1D6B8", "U+1D6B9", "U+1D6BA", "U+1D6BB",
    "U+1D6BC", "U+1D6BD", "U+1D6BE", "U+1D6BF", "U+1D6C0", "U+1D6E2",
    "U+1D6E3", "U+1D6E4", "U+1D6E5", "U+1D6E6", "U+1D6E7", "U+1D6E8",
    "U+1D6E9", "U+1D6EA", "U+1D6EB", "U+1D6EC", "U+1D6ED", "U+1D6EE",
    "U+1D6EF", "U+1D6F0", "U+1D6F1", "U+1D6F2", "U+1D6F3", "U+1D6F4",
    "U+1D6F5", "U+1D6F6", "U+1D6F7", "U+1D6F8", "U+1D6F9", "U+1D6FA",
    "U+1D71C", "U+1D71D", "U+1D71E", "U+1D71F", "U+1D720", "U+1D721",
    "U+1D722", "U+1D723", "U+1D724", "U+1D725", "U+1D726", "U+1D727",
    "U+1D728", "U+1D729", "U+1D72A", "U+1D72B", "U+1D72C", "U+1D72D",
    "U+1D72E", "U+1D72F", "U+1D730", "U+1D731", "U+1D732", "U+1D733",
    "U+1D734", "U+1D756", "U+1D757", "U+1D758", "U+1D759", "U+1D75A",
    "U+1D75B", "U+1D75C", "U+1D75D", "U+1D75E", "U+1D75F", "U+1D760",
    "U+1D761", "U+1D762", "U+1D763", "U+1D764", "U+1D765", "U+1D766",
    "U+1D767", "U+1D768", "U+1D769", "U+1D76A", "U+1D76B", "U+1D76C",
    "U+1D76D", "U+1D76E", "U+1D790", "U+1D791", "U+1D792", "U+1D793",
    "U+1D794", "U+1D795", "U+1D796", "U+1D797", "U+1D798", "U+1D799",
    "U+1D79A", "U+1D79B", "U+1D79C", "U+1D79D", "U+1D79E", "U+1D79F",
    "U+1D7A0", "U+1D7A1", "U+1D7A2", "U+1D7A3", "U+1D7A4", "U+1D7A5",
    "U+1D7A6", "U+1D7A7", "U+1D7A8", "U+1D7CA", "U+1E900", "U+1E901",
    "U+1E902", "U+1E903", "U+1E904", "U+1E905", "U+1E906", "U+1E907",
    "U+1E908", "U+1E909", "U+1E90A", "U+1E90B", "U+1E90C", "U+1E90D",
    "U+1E90E", "U+1E90F", "U+1E910", "U+1E911", "U+1E912", "U+1E913",
    "U+1E914", "U+1E915", "U+1E916", "U+1E917", "U+1E918", "U+1E919",
    "U+1E91A", "U+1E91B", "U+1E91C", "U+1E91D", "U+1E91E", "U+1E91F",
    "U+1E920", "U+1E921", "U+1F130", "U+1F131", "U+1F132", "U+1F133",
    "U+1F134", "U+1F135", "U+1F136", "U+1F137", "U+1F138", "U+1F139",
    "U+1F13A", "U+1F13B", "U+1F13C", "U+1F13D", "U+1F13E", "U+1F13F",
    "U+1F140", "U+1F141", "U+1F142", "U+1F143", "U+1F144", "U+1F145",
    "U+1F146", "U+1F147", "U+1F148", "U+1F149", "U+1F150", "U+1F151",
    "U+1F152", "U+1F153", "U+1F154", "U+1F155", "U+1F156", "U+1F157",
    "U+1F158", "U+1F159", "U+1F15A", "U+1F15B", "U+1F15C", "U+1F15D",
    "U+1F15E", "U+1F15F", "U+1F160", "U+1F161", "U+1F162", "U+1F163",
    "U+1F164", "U+1F165", "U+1F166", "U+1F167", "U+1F168", "U+1F169",
    "U+1F170", "U+1F171", "U+1F172", "U+1F173", "U+1F174", "U+1F175",
    "U+1F176", "U+1F177", "U+1F178", "U+1F179", "U+1F17A", "U+1F17B",
    "U+1F17C", "U+1F17D", "U+1F17E", "U+1F17F", "U+1F180", "U+1F181",
    "U+1F182", "U+1F183", "U+1F184", "U+1F185", "U+1F186", "U+1F187",
    "U+1F188", "U+1F189"}

\* the lower-case and title-case characters, whose presence makes
\* str.isupper() false
LowerCaseChars == {
    "a", "b", "c", "d", "e", "f", "g", "h", "i", "j", "k", "l", "m", "n", "o",
    "p", "q", "r", "s", "t", "u", "v", "w", "x", "y", "z", "U+00AA", "U+00B5",
    "U+00BA", "U+00DF", "U+00E0", "U+00E1", "U+00E2", "U+00E3", "U+00E4",
    "U+00E5", "U+00E6", "U+00E7", "U+00E8", "U+00E9", "U+00EA", "U+00EB",
    "U+00EC", "U+00ED", "U+00EE", "U+00EF", "U+00F0", "U+00F1", "U+00F2",
    "U+00F3", "U+00F4", "U+00F5", "U+00F6", "U+00F8", "U+00F9", "U+00FA",
    "U+00FB", "U+00FC", "U+00FD", "U+00FE", "U+00FF", "U+0101", "U+0103",
    "U+0105", "U+0107", "U+0109", "U+010B", "U+010D", "U+010F", "U+0111",
    "U+0113", "U+0115", "U+0117", "U+0119", "U+011B", "U+011D", "U+011F",
    "U+0121", "U+0123", "U+0125", "U+0127", "U+0129", "U+012B", "U+012D",
    "U+012F", "U+0131", "U+0133", "U+0135", "U+0137", "U+0138", "U+013A",
    "U+013C", "U+013E", "U+0140", "U+0142", "U+0144", "U+0146", "U+0148",
    "U+0149", "U+014B", "U+014D", "U+014F", "U+0151", "U+0153", "U+0155",
    "U+0157", "U+0159", "U+015B", "U+015D", "U+015F", "U+0161", "U+0163",
    "U+0165", "U+0167", "U+0169", "U+016B", "U+016D", "U+016F", "U+0171",
    "U+0173", "U+0175", "U+0177", "U+017A", "U+017C", "U+017E", "U+017F",
    "U+0180", "U+0183", "U+0185", "U+0188", "U+018C", "U+018D", "U+0192",
    "U+0195", "U+0199", "U+019A", "U+019B", "U+019E", "U+01A1", "U+01A3",
    "U+01A5", "U+01A8", "U+01AA", "U+01AB", "U+01AD", "U+01B0", "U+01B4",
    "U+01B6", "U+01B9", "U+01BA", "U+01BD", "U+01BE", "U+01BF", "U+01C5",
    "U+01C6", "U+01C8", "U+01C9", "U+01CB", "U+01CC", "U+01CE", "U+01D0",
    "U+01D2", "U+01D4", "U+01D6", "U+01D8", "U+01DA", "U+01DC", "U+01DD",
    "U+01DF", "U+01E1", "U+01E3", "U+01E5", "U+01E7", "U+01E9", "U+01EB",
    "U+01ED", "U+01EF", "U+01F0", "U+01F2", "U+01F3", "U+01F5", "U+01F9",
    "U+01FB", "U+01FD", "U+01FF", "U+0201", "U+0203", "U+0205", "U+0207",
    "U+0209", "U+020B", "U+020D", "U+020F", "U+0211", "U+0213", "U+0215",
    "U+0217", "U+0219", "U+021B", "U+021D", "U+021F", "U+0221", "U+0223",
    "U+0225", "U+0227", "U+0229", "U+022B", "U+022D", "U+022F", "U+0231",
    "U+0233", "U+0234", "U+0235", "U+0236", "U+0237", "U+0238", "U+0239",
    "U+023C", "U+023F", "U+0240", "U+0242", "U+0247", "U+0249", "U+024B",
    "U+024D", "U+024F", "U+0250", "U+0251", "U+0252", "U+0253", "U+0254",
    "U+0255", "U+0256", "U+0257", "U+0258", "U+0259", "U+025A", "U+025B",
    "U+025C", "U+025D", "U+025E", "U+025F", "U+0260", "U+0261", "U+0262",
    "U+0263", "U+0264", "U+0265", "U+0266", "U+0267", "U+0268", "U+0269",
    "U+026A", "U+026B", "U+026C", "U+026D", "U+026E", "U+026F", "U+0270",
    "U+0271", "U+0272", "U+0273", "U+0274", "U+0275", "U+0276", "U+0277",
    "U+0278", "U+0279", "U+027A", "U+027B", "U+027C", "U+027D", "U+027E",
    "U+027F", "U+0280", "U+0281", "U+0282", "U+0283", "U+0284", "U+0285",
    "U+0286", "U+0287", "U+0288", "U+0289", "U+028A", "U+028B", "U+028C",
    "U+028D", "U+028E", "U+028F", "U+0290", "U+0291", "U+0292", "U+0293",
    "U+0295", "U+0296", "U+0297", "U+0298", "U+0299", "U+029A", "U+029B",
    "U+029C", "U+029D", "U+029E", "U+029F", "U+02A0", "U+02A1", "U+02A2",
    "U+02A3", "U+02A4", "U+02A5", "U+02A6", "U+02A7", "U+02A8", "U+02A9",
    "U+02AA", "U+02AB", "U+02AC", "U+02AD", "U+02AE", "U+02AF", "U+02B0",
    "U+02B1", "U+02B2", "U+02B3", "U+02B4", "U+02B5", "U+02B6", "U+02B7",
    "U+02B8", "U+02C0", "U+02C1", "U+02E0", "U+02E1", "U+02E2", "U+02E3",
    "U+02E4", "U+0345", "U+0371", "U+0373", "U+0377", "U+037A", "U+037B",
    "U+037C", "U+037D", "U+0390", "U+03AC", "U+03AD", "U+03AE", "U+03AF",
    "U+03B0", "U+03B1", "U+03B2", "U+03B3", "U+03B4", "U+03B5", "U+03B6",
    "U+03B7", "U+03B8", "U+03B9", "U+03BA", "U+03BB", "U+03BC", "U+03BD",
    "U+03BE", "U+03BF", "U+03C0", "U+03C1", "U+03C2", "U+03C3", "U+03C4",
    "U+03C5", "U+03C6", "U+03C7", "U+03C8", "U+03C9", "U+03CA", "U+03CB",
    "U+03CC", "U+03CD", "U+03CE", "U+03D0", "U+03D1", "U+03D5", "U+03D6",
    "U+03D7", "U+03D9", "U+03DB", "U+03DD", "U+03DF", "U+03E1", "U+03E3",
    "U+03E5", "U+03E7", "U+03E9", "U+03EB", "U+03ED", "U+03EF", "U+03F0",
    "U+03F1", "U+03F2", "U+03F3", "U+03F5", "U+03F8", "U+03FB", "U+03FC",
    "U+0430", "U+0431", "U+0432", "U+0433", "U+0434", "U+0435", "U+0436",
    "U+0437", "U+0438", "U+0439", "U+043A", "U+043B", "U+043C", "U+043D",
    "U+043E", "U+043F", "U+0440", "U+0441", "U+0442", "U+0443", "U+0444",
    "U+0445", "U+0446", "U+0447", "U+0448", "U+0449", "U+044A", "U+044B",
    "U+044C", "U+044D", "U+044E", "U+044F", "U+0450", "U+0451", "U+0452",
    "U+0453", "U+0454", "U+0455", "U+0456", "U+0457", "U+0458", "U+0459",
    "U+045A", "U+045B", "U+045C", "U+045D", "U+045E", "U+045F", "U+0461",
    "U+0463", "U+0465", "U+0467", "U+0469", "U+046B", "U+046D", "U+046F",
    "U+0471", "U+0473", "U+0475", "U+0477", "U+0479", "U+047B", "U+047D",
    "U+047F", "U+0481", "U+048B", "U+048D", "U+048F", "U+0491", "U+0493",
    "U+0495", "U+0497", "U+0499", "U+049B", "U+049D", "U+049F", "U+04A1",
    "U+04A3", "U+04A5", "U+04A7", "U+04A9", "U+04AB", "U+04AD", "U+04AF",
    "U+04B1", "U+04B3", "U+04B5", "U+04B7", "U+04B9", "U+04BB", "U+04BD",
    "U+04BF", "U+04C2", "U+04C4", "U+04C6", "U+04C8", "U+04CA", "U+04CC",
    "U+04CE", "U+04CF", "U+04D1", "U+04D3", "U+04D5", "U+04D7", "U+04D9",
    "U+04DB", "U+04DD", "U+04DF", "U+04E1", "U+04E3", "U+04E5", "U+04E7",
    "U+04E9", "U+04EB", "U+04ED", "U+04EF", "U+04F1", "U+04F3", "U+04F5",
    "U+04F7", "U+04F9", "U+04FB", "U+04FD", "U+04FF", "U+0501", "U+0503",
    "U+0505", "U+0507", "U+0509", "U+050B", "U+050D", "U+050F", "U+0511",
    "U+0513", "U+0515", "U+0517", "U+0519", "U+051B", "U+051D", "U+051F",
    "U+0521", "U+0523", "U+0525", "U+0527", "U+0529", "U+052B", "U+052D",
    "U+052F", "U+0560", "U+0561", "U+0562", "U+0563", "U+0564", "U+0565",
    "U+0566", "U+0567", "U+0568", "U+0569", "U+056A", "U+056B", "U+056C",
    "U+056D", "U+056E", "U+056F", "U+0570", "U+0571", "U+0572", "U+0573",
    "U+0574", "U+0575", "U+0576", "U+0577", "U+0578", "U+0579", "U+057A",
    "U+057B", "U+057C", "U+057D", "U+057E", "U+057F", "U+0580", "U+0581",
    "U+0582", "U+0583", "U+0584", "U+0585", "U+0586", "U+0587", "U+0588",
    "U+10D0", "U+10D1", "U+10D2", "U+10D3", "U+10D4", "U+10D5", "U+10D6",
    "U+10D7", "U+10D8", "U+10D9", "U+10DA", "U+10DB", "U+10DC", "U+10DD",
    "U+10DE", "U+10DF", "U+10E0", "U+10E1", "U+10E2", "U+10E3", "U+10E4",
    "U+10E5", "U+10E6", "U+10E7", "U+10E8", "U+10E9", "U+10EA", "U+10EB",
    "U+10EC", "U+10ED", "U+10EE", "U+10EF", "U+10F0", "U+10F1", "U+10F2",
    "U+10F3", "U+10F4", "U+10F5", "U+10F6", "U+10F7", "U+10F8", "U+10F9",
    "U+10FA", "U+10FD", "U+10FE", "U+10FF", "U+13F8", "U+13F9", "U+13FA",
    "U+13FB", "U+13FC", "U+13FD", "U+1C80", "U+1C81", "U+1C82", "U+1C83",
    "U+1C84", "U+1C85", "U+1C86", "U+1C87", "U+1C88", "U+1D00", "U+1D01",
    "U+1D02", "U+1D03", "U+1D04", "U+1D05", "U+1D06", "U+1D07", "U+1D08",
    "U+1D09", "U+1D0A", "U+1D0B", "U+1D0C", "U+1D0D", "U+1D0E", "U+1D0F",
    "U+1D10", "U+1D11", "U+1D12", "U+1D13", "U+1D14", "U+1D15", "U+1D16",
    "U+1D17", "U+1D18", "U+1D19", "U+1D1A", "U+1D1B", "U+1D1C", "U+1D1D",
    "U+1D1E", "U+1D1F", "U+1D20", "U+1D21", "U+1D22", "U+1D23", "U+1D24",
    "U+1D25", "U+1D26", "U+1D27", "U+1D28", "U+1D29", "U+1D2A", "U+1D2B",
    "U+1D2C", "U+1D2D", "U+1D2E", "U+1D2F", "U+1D30", "U+1D31", "U+1D32",
    "U+1D33", "U+1D34", "U+1D35", "U+1D36", "U+1D37", "U+1D38", "U+1D39",
    "U+1D3A", "U+1D3B", "U+1D3C", "U+1D3D", "U+1D3E", "U+1D3F", "U+1D40",
    "U+1D41", "U+1D42", "U+1D43", "U+1D44", "U+1D45", "U+1D46", "U+1D47",
    "U+1D48", "U+1D49", "U+1D4A", "U+1D4B", "U+1D4C", "U+1D4D", "U+1D4E",
    "U+1D4F", "U+1D50", "U+1D51", "U+1D52", "U+1D53", "U+1D54", "U+1D55",
    "U+1D56", "U+1D57", "U+1D58", "U+1D59", "U+1D5A", "U+1D5B", "U+1D5C",
    "U+1D5D", "U+1D5E", "U+1D5F", "U+1D60", "U+1D61", "U+1D62", "U+1D63",
    "U+1D64", "U+1D65", "U+1D66", "U+1D67", "U+1D68", "U+1D69", "U+1D6A",
    "U+1D6B", "U+1D6C", "U+1D6D", "U+1D6E", "U+1D6F", "U+1D70", "U+1D71",
    "U+1D72", "U+1D73", "U+1D74", "U+1D75", "U+1D76", "U+1D77", "U+1D78",
    "U+1D79", "U+1D7A", "U+1D7B", "U+1D7C", "U+1D7D", "U+1D7E", "U+1D7F",
    "U+1D80", "U+1D81", "U+1D82", "U+1D83", "U+1D84", "U+1D85", "U+1D86",
    "U+1D87", "U+1D88", "U+1D89", "U+1D8A", "U+1D8B", "U+1D8C", "U+1D8D",
    "U+1D8E", "U+1D8F", "U+1D90", "U+1D91", "U+1D92", "U+1D93", "U+1D94",
    "U+1D95", "U+1D96", "U+1D97", "U+1D98", "U+1D99", "U+1D9A", "U+1D9B",
    "U+1D9C", "U+1D9D", "U+1D9E", "U+1D9F", "U+1DA0", "U+1DA1", "U+1DA2",
    "U+1DA3", "U+1DA4", "U+1DA5", "U+1DA6", "U+1DA7", "U+1DA8", "U+1DA9",
    "U+1DAA", "U+1DAB", "U+1DAC", "U+1DAD", "U+1DAE", "U+1DAF", "U+1DB0",
    "U+1DB1", "U+1DB2", "U+1DB3", "U+1DB4", "U+1DB5", "U+1DB6", "U+1DB7",
    "U+1DB8", "U+1DB9", "U+1DBA", "U+1DBB", "U+1DBC", "U+1DBD", "U+1DBE",
    "U+1DBF", "U+1E01", "U+1E03", "U+1E05", "U+1E07", "U+1E09", "U+1E0B",
    "U+1E0D", "U+1E0F", "U+1E11", "U+1E13", "U+1E15", "U+1E17", "U+1E19",
    "U+1E1B", "U+1E1D", "U+1E1F", "U+1E21", "U+1E23", "U+1E25", "U+1E27",
    "U+1E29", "U+1E2B", "U+1E2D", "U+1E2F", "U+1E31", "U+1E33", "U+1E35",
    "U+1E37", "U+1E39", "U+1E3B", "U+1E3D", "U+1E3F", "U+1E41", "U+1E43",
    "U+1E45", "U+1E47", "U+1E49", "U+1E4B", "U+1E4D", "U+1E4F", "U+1E51",
    "U+1E53", "U+1E55", "U+1E57", "U+1E59", "U+1E5B", "U+1E5D", "U+1E5F",
    "U+1E61", "U+1E63", "U+1E65", "U+1E67", "U+1E69", "U+1E6B", "U+1E6D",
    "U+1E6F", "U+1E71", "U+1E73", "U+1E75", "U+1E77", "U+1E79", "U+1E7B",
    "U+1E7D", "U+1E7F", "U+1E81", "U+1E83", "U+1E85", "U+1E87", "U+1E89",
    "U+1E8B", "U+1E8D", "U+1E8F", "U+1E91", "U+1E93", "U+1E95", "U+1E96",
    "U+1E97", "U+1E98", "U+1E99", "U+1E9A", "U+1E9B", "U+1E9C", "U+1E9D",
    "U+1E9F", "U+1EA1", "U+1EA3", "U+1EA5", "U+1EA7", "U+1EA9", "U+1EAB",
    "U+1EAD", "U+1EAF", "U+1EB1", "U+1EB3", "U+1EB5", "U+1EB7", "U+1EB9",
    "U+1EBB", "U+1EBD", "U+1EBF", "U+1EC1", "U+1EC3", "U+1EC5", "U+1EC7",
    "U+1EC9", "U+1ECB", "U+1ECD", "U+1ECF", "U+1ED1", "U+1ED3", "U+1ED5",
    "U+1ED7", "U+1ED9", "U+1EDB", "U+1EDD", "U+1EDF", "U+1EE1", "U+1EE3",
    "U+1EE5", "U+1EE7", "U+1EE9", "U+1EEB", "U+1EED", "U+1EEF", "U+1EF1",
    "U+1EF3", "U+1EF5", "U+1EF7", "U+1EF9", "U+1EFB", "U+1EFD", "U+1EFF",
    "U+1F00", "U+1F01", "U+1F02", "U+1F03", "U+1F04", "U+1F05", "U+1F06",
    "U+1F07", "U+1F10", "U+1F11", "U+1F12", "U+1F13", "U+1F14", "U+1F15",
    "U+1F20", "U+1F21", "U+1F22", "U+1F23", "U+1F24", "U+1F25", "U+1F26",
    "U+1F27", "U+1F30", "U+1F31", "U+1F32", "U+1F33", "U+1F34", "U+1F35",
    "U+1F36", "U+1F37", "U+1F40", "U+1F41", "U+1F42", "U+1F43", "U+1F44",
    "U+1F45", "U+1F50", "U+1F51", "U+1F52", "U+1F53", "U+1F54", "U+1F55",
    "U+1F56", "U+1F57", "U+1F60", "U+1F61", "U+1F62", "U+1F63", "U+1F64",
    "U+1F65", "U+1F66", "U+1F67", "U+1F70", "U+1F71", "U+1F72", "U+1F73",
    "U+1F74", "U+1F75", "U+1F76", "U+1F77", "U+1F78", "U+1F79", "U+1F7A",
    "U+1F7B", "U+1F7C", "U+1F7D", "U+1F80", "U+1F81", "U+1F82", "U+1F83",
    "U+1F84", "U+1F85", "U+1F86", "U+1F87", "U+1F88", "U+1F89", "U+1F8A",
    "U+1F8B", "U+1F8C", "U+1F8D", "U+1F8E", "U+1F8F", "U+1F90", "U+1F91",
    "U+1F92", "U+1F93", "U+1F94", "U+1F95", "U+1F96", "U+1F97", "U+1F98",
    "U+1F99", "U+1F9A", "U+1F9B", "U+1F9C", "U+1F9D", "U+1F9E", "U+1F9F",
    "U+1FA0", "U+1FA1", "U+1FA2", "U+1FA3", "U+1FA4", "U+1FA5", "U+1FA6",
    "U+1FA7", "U+1FA8", "U+1FA9", "U+1FAA", "U+1FAB", "U+1FAC", "U+1FAD",
    "U+1FAE", "U+1FAF", "U+1FB0", "U+1FB1", "U+1FB2", "U+1FB3", "U+1FB4",
    "U+1FB6", "U+1FB7", "U+1FBC", "U+1FBE", "U+1FC2", "U+1FC3", "U+1FC4",
    "U+1FC6", "U+1FC7", "U+1FCC", "U+1FD0", "U+1FD1", "U+1FD2", "U+1FD3",
    "U+1FD6", "U+1FD7", "U+1FE0", "U+1FE1", "U+1FE2", "U+1FE3", "U+1FE4",
    "U+1FE5", "U+1FE6", "U+1FE7", "U+1FF2", "U+1FF3", "U+1FF4", "U+1FF6",
    "U+1FF7", "U+1FFC", "U+2071", "U+207F", "U+2090", "U+2091", "U+2092",
    "U+2093", "U+2094", "U+2095", "U+2096", "U+2097", "U+2098", "U+2099",
    "U+209A", "U+209B", "U+209C", "U+210A", "U+210E", "U+210F", "U+2113",
    "U+212F", "U+2134", "U+2139", "U+213C", "U+213D", "U+2146", "U+2147",
    "U+2148", "U+2149", "U+214E", "U+2170", "U+2171", "U+2172", "U+2173",
    "U+2174", "U+2175", "U+2176", "U+2177", "U+2178", "U+2179", "U+217A",
    "U+217B", "U+217C", "U+217D", "U+217E", "U+217F", "U+2184", "U+24D0",
    "U+24D1", "U+24D2", "U+24D3", "U+24D4", "U+24D5", "U+24D6", "U+24D7",
    "U+24D8", "U+24D9", "U+24DA", "U+24DB", "U+24DC", "U+24DD", "U+24DE",
    "U+24DF", "U+24E0", "U+24E1", "U+24E2", "U+24E3", "U+24E4", "U+24E5",
    "U+24E6", "U+24E7", "U+24E8", "U+24E9", "U+2C30", "U+2C31", "U+2C32",
    "U+2C33", "U+2C34", "U+2C35", "U+2C36", "U+2C37", "U+2C38", "U+2C39",
    "U+2C3A", "U+2C3B", "U+2C3C", "U+2C3D", "U+2C3E", "U+2C3F", "U+2C40",
    "U+2C41", "U+2C42", "U+2C43", "U+2C44", "U+2C45", "U+2C46", "U+2C47",
    "U+2C48", "U+2C49", "U+2C4A", "U+2C4B", "U+2C4C", "U+2C4D", "U+2C4E",
    "U+2C4F", "U+2C50", "U+2C51", "U+2C52", "U+2C53", "U+2C54", "U+2C55",
    "U+2C56", "U+2C57", "U+2C58", "U+2C59", "U+2C5A", "U+2C5B", "U+2C5C",
    "U+2C5D", "U+2C5E", "U+2C5F", "U+2C61", "U+2C65", "U+2C66", "U+2C68",
    "U+2C6A", "U+2C6C", "U+2C71", "U+2C73", "U+2C74", "U+2C76", "U+2C77",
    "U+2C78", "U+2C79", "U+2C7A", "U+2C7B", "U+2C7C", "U+2C7D", "U+2C81",
    "U+2C83", "U+2C85", "U+2C87", "U+2C89", "U+2C8B", "U+2C8D", "U+2C8F",
    "U+2C91", "U+2C93", "U+2C95", "U+2C97", "U+2C99", "U+2C9B", "U+2C9D",
    "U+2C9F", "U+2CA1", "U+2CA3", "U+2CA5", "U+2CA7", "U+2CA9", "U+2CAB",
    "U+2CAD", "U+2CAF", "U+2CB1", "U+2CB3", "U+2CB5", "U+2CB7", "U+2CB9",
    "U+2CBB", "U+2CBD", "U+2CBF", "U+2CC1", "U+2CC3", "U+2CC5", "U+2CC7",
    "U+2CC9", "U+2CCB", "U+2CCD", "U+2CCF", "U+2CD1", "U+2CD3", "U+2CD5",
    "U+2CD7", "U+2CD9", "U+2CDB", "U+2CDD", "U+2CDF", "U+2CE1", "U+2CE3",
    "U+2CE4", "U+2CEC", "U+2CEE", "U+2CF3", "U+2D00", "U+2D01", "U+2D02",
    "U+2D03", "U+2D04", "U+2D05", "U+2D06", "U+2D07", "U+2D08", "U+2D09",
    "U+2D0A", "U+2D0B", "U+2D0C", "U+2D0D", "U+2D0E", "U+2D0F", "U+2D10",
    "U+2D11", "U+2D12", "U+2D13", "U+2D14", "U+2D15", "U+2D16", "U+2D17",
    "U+2D18", "U+2D19", "U+2D1A", "U+2D1B", "U+2D1C", "U+2D1D", "U+2D1E",
    "U+2D1F", "U+2D20", "U+2D21", "U+2D22", "U+2D23", "U+2D24", "U+2D25",
    "U+2D27", "U+2D2D", "U+A641", "U+A643", "U+A645", "U+A647", "U+A649",
    "U+A64B", "U+A64D", "U+A64F", "U+A651", "U+A653", "U+A655", "U+A657",
    "U+A659", "U+A65B", "U+A65D", "U+A65F", "U+A661", "U+A663", "U+A665",
    "U+A667", "U+A669", "U+A66B", "U+A66D", "U+A681", "U+A683", "U+A685",
    "U+A687", "U+A689", "U+A68B", "U+A68D", "U+A68F", "U+A691", "U+A693",
    "U+A695", "U+A697", "U+A699", "U+A69B", "U+A69C", "U+A69D", "U+A723",
    "U+A725", "U+A727", "U+A729", "U+A72B", "U+A72D", "U+A72F", "U+A730",
    "U+A731", "U+A733", "U+A735", "U+A737", "U+A739", "U+A73B", "U+A73D",
    "U+A73F", "U+A741", "U+A743", "U+A745", "U+A747", "U+A749", "U+A74B",
    "U+A74D", "U+A74F", "U+A751", "U+A753", "U+A755", "U+A757", "U+A759",
    "U+A75B", "U+A75D", "U+A75F", "U+A761", "U+A763", "U+A765", "U+A767",
    "U+A769", "U+A76B", "U+A76D", "U+A76F", "U+A770", "U+A771", "U+A772",
    "U+A773", "U+A774", "U+A775", "U+A776", "U+A777", "U+A778", "U+A77A",
    "U+A77C", "U+A77F", "U+A781", "U+A783", "U+A785", "U+A787", "U+A78C",
    "U+A78E", "U+A791", "U+A793", "U+A794", "U+A795", "U+A797", "U+A799",
    "U+A79B", "U+A79D", "U+A79F", "U+A7A1", "U+A7A3", "U+A7A5", "U+A7A7",
    "U+A7A9", "U+A7AF", "U+A7B5", "U+A7B7", "U+A7B9", "U+A7BB", "U+A7BD",
    "U+A7BF", "U+A7C1", "U+A7C3", "U+A7C8", "U+A7CA", "U+A7D1", "U+A7D3",
    "U+A7D5", "U+A7D7", "U+A7D9", "U+A7F6", "U+A7F8", "U+A7F9", "U+A7FA",
    "U+AB30", "U+AB31", "U+AB32", "U+AB33", "U+AB34", "U+AB35", "U+AB36",
    "U+AB37", "U+AB38", "U+AB39", "U+AB3A", "U+AB3B", "U+AB3C", "U+AB3D",
    "U+AB3E", "U+AB3F", "U+AB40", "U+AB41", "U+AB42", "U+AB43", "U+AB44",
    "U+AB45", "U+AB46", "U+AB47", "U+AB48", "U+AB49", "U+AB4A", "U+AB4B",
    "U+AB4C", "U+AB4D", "U+AB4E", "U+AB4F", "U+AB50", "U+AB51", "U+AB52",
    "U+AB53", "U+AB54", "U+AB55", "U+AB56", "U+AB57", "U+AB58", "U+AB59",
    "U+AB5A", "U+AB5C", "U+AB5D", "U+AB5E", "U+AB5F", "U+AB60", "U+AB61",
    "U+AB62", "U+AB63", "U+AB64", "U+AB65", "U+AB66", "U+AB67", "U+AB68",
    "U+AB70", "U+AB71", "U+AB72", "U+AB73", "U+AB74", "U+AB75", "U+AB76",
    "U+AB77", "U+AB78", "U+AB79", "U+AB7A", "U+AB7B", "U+AB7C", "U+AB7D",
    "U+AB7E", "U+AB7F", "U+AB80", "U+AB81", "U+AB82", "U+AB83", "U+AB84",
    "U+AB85", "U+AB86", "U+AB87", "U+AB88", "U+AB89", "U+AB8A", "U+AB8B",
    "U+AB8C", "U+AB8D", "U+AB8E", "U+AB8F", "U+AB90", "U+AB91", "U+AB92",
    "U+AB93", "U+AB94", "U+AB95", "U+AB96", "U+AB97", "U+AB98", "U+AB99",
    "U+AB9A", "U+AB9B", "U+AB9C", "U+AB9D", "U+AB9E", "U+AB9F", "U+ABA0",
    "U+ABA1", "U+ABA2", "U+ABA3", "U+ABA4", "U+ABA5", "U+ABA6", "U+ABA7",
    "U+ABA8", "U+ABA9", "U+ABAA", "U+ABAB", "U+ABAC", "U+ABAD", "U+ABAE",
    "U+ABAF", "U+ABB0", "U+ABB1", "U+ABB2", "U+ABB3", "U+ABB4", "U+ABB5",
    "U+ABB6", "U+ABB7", "U+ABB8", "U+ABB9", "U+ABBA", "U+ABBB", "U+ABBC",
    "U+ABBD", "U+ABBE", "U+ABBF", "U+FB00", "U+FB01", "U+FB02", "U+FB03",
    "U+FB04", "U+FB05", "U+FB06", "U+FB13", "U+FB14", "U+FB15", "U+FB16",
    "U+FB17", "U+FF41", "U+FF42", "U+FF43", "U+FF44", "U+FF45", "U+FF46",
    "U+FF47", "U+FF48", "U+FF49", "U+FF4A", "U+FF4B", "U+FF4C", "U+FF4D",
    "U+FF4E", "U+FF4F", "U+FF50", "U+FF51", "U+FF52", "U+FF53", "U+FF54",
    "U+FF55", "U+FF56", "U+FF57", "U+FF58", "U+FF59", "U+FF5A", "U+10428",
    "U+10429", "U+1042A", "U+1042B", "U+1042C", "U+1042D", "U+1042E",
    "U+1042F", "U+10430", "U+10431", "U+10432", "U+10433", "U+10434",
    "U+10435", "U+10436", "U+10437", "U+10438", "U+10439", "U+1043A",
    "U+1043B", "U+1043C", "U+1043D", "U+1043E", "U+1043F", "U+10440",
    "U+10441", "U+10442", "U+10443", "U+10444", "U+10445", "U+10446",
    "U+10447", "U+10448", "U+10449", "U+1044A", "U+1044B", "U+1044C",
    "U+1044D", "U+1044E", "U+1044F", "U+104D8", "U+104D9", "U+104DA",
    "U+104DB", "U+104DC", "U+104DD", "U+104DE", "U+104DF", "U+104E0",
    "U+104E1", "U+104E2", "U+104E3", "U+104E4", "U+104E5", "U+104E6",
    "U+104E7", "U+104E8", "U+104E9", "U+104EA", "U+104EB", "U+104EC",
    "U+104ED", "U+104EE", "U+104EF", "U+104F0", "U+104F1", "U+104F2",
    "U+104F3", "U+104F4", "U+104F5", "U+104F6", "U+104F7", "U+104F8",
    "U+104F9", "U+104FA", "U+104FB", "U+10597", "U+10598", "U+10599",
    "U+1059A", "U+1059B", "U+1059C", "U+1059D", "U+1059E", "U+1059F",
    "U+105A0", "U+105A1", "U+105A3", "U+105A4", "U+105A5", "U+105A6",
    "U+105A7", "U+105A8", "U+105A9", "U+105AA", "U+105AB", "U+105AC",
    "U+105AD", "U+105AE", "U+105AF", "U+105B0", "U+105B1", "U+105B3",
    "U+105B4", "U+105B5", "U+105B6", "U+105B7", "U+105B8", "U+105B9",
    "U+105BB", "U+105BC", "U+10780", "U+10783", "U+10784", "U+10785",
    "U+10787", "U+10788", "U+10789", "U+1078A", "U+1078B", "U+1078C",
    "U+1078D", "U+1078E", "U+1078F", "U+10790", "U+10791", "U+10792",
    "U+10793", "U+10794", "U+10795", "U+10796", "U+10797", "U+10798",
    "U+10799", "U+1079A", "U+1079B", "U+1079C", "U+1079D", "U+1079E",
    "U+1079F", "U+107A0", "U+107A1", "U+107A2", "U+107A3", "U+107A4",
    "U+107A5", "U+107A6", "U+107A7", "U+107A8", "U+107A9", "U+107AA",
    "U+107AB", "U+107AC", "U+107AD", "U+107AE", "U+107AF", "U+107B0",
    "U+107B2", "U+107B3", "U+107B4", "U+107B5", "U+107B6", "U+107B7",
    "U+107B8", "U+107B9", "U+107BA", "U+10CC0", "U+10CC1", "U+10CC2",
    "U+10CC3", "U+10CC4", "U+10CC5", "U+10CC6", "U+10CC7", "U+10CC8",
    "U+10CC9", "U+10CCA", "U+10CCB", "U+10CCC", "U+10CCD", "U+10CCE",
    "U+10CCF", "U+10CD0", "U+10CD1", "U+10CD2", "U+10CD3", "U+10CD4",
    "U+10CD5", "U+10CD6", "U+10CD7", "U+10CD8", "U+10CD9", "U+10CDA",
    "U+10CDB", "U+10CDC", "U+10CDD", "U+10CDE", "U+10CDF", "U+10CE0",
    "U+10CE1", "U+10CE2", "U+10CE3", "U+10CE4", "U+10CE5", "U+10CE6",
    "U+10CE7", "U+10CE8", "U+10CE9", "U+10CEA", "U+10CEB", "U+10CEC",
    "U+10CED", "U+10CEE", "U+10CEF", "U+10CF0", "U+10CF1", "U+10CF2",
    "U+118C0", "U+118C1", "U+118C2", "U+118C3", "U+118C4", "U+118C5",
    "U+118C6", "U+118C7", "U+118C8", "U+118C9", "U+118CA", "U+118CB",
    "U+118CC", "U+118CD", "U+118CE", "U+118CF", "U+118D0", "U+118D1",
    "U+118D2", "U+118D3", "U+118D4", "U+118D5", "U+118D6", "U+118D7",
    "U+118D8", "U+118D9", "U+118DA", "U+118DB", "U+118DC", "U+118DD",
    "U+118DE", "U+118DF", "U+16E60", "U+16E61", "U+16E62", "U+16E63",
    "U+16E64", "U+16E65", "U+16E66", "U+16E67", "U+16E68", "U+16E69",
    "U+16E6A", "U+16E6B", "U+16E6C", "U+16E6D", "U+16E6E", "U+16E6F",
    "U+16E70", "U+16E71", "U+16E72", "U+16E73", "U+16E74", "U+16E75",
    "U+16E76", "U+16E77", "U+16E78", "U+16E79", "U+16E7A", "U+16E7B",
    "U+16E7C", "U+16E7D", "U+16E7E", "U+16E7F", "U+1D41A", "U+1D41B",
    "U+1D41C", "U+1D41D", "U+1D41E", "U+1D41F", "U+1D420", "U+1D421",
    "U+1D422", "U+1D423", "U+1D424", "U+1D425", "U+1D426", "U+1D427",
    "U+1D428", "U+1D429", "U+1D42A", "U+1D42B", "U+1D42C", "U+1D42D",
    "U+1D42E", "U+1D42F", "U+1D430", "U+1D431", "U+1D432", "U+1D433",
    "U+1D44E", "U+1D44F", "U+1D450", "U+1D451", "U+1D452", "U+1D453",
    "U+1D454", "U+1D456", "U+1D457", "U+1D458", "U+1D459", "U+1D45A",
    "U+1D45B", "U+1D45C", "U+1D45D", "U+1D45E", "U+1D45F", "U+1D460",
    "U+1D461", "U+1D462", "U+1D463", "U+1D464", "U+1D465", "U+1D466",
    "U+1D467", "U+1D482", "U+1D483", "U+1D484", "U+1D485", "U+1D486",
    "U+1D487", "U+1D488", "U+1D489", "U+1D48A", "U+1D48B", "U+1D48C",
    "U+1D48D", "U+1D48E", "U+1D48F", "U+1D490", "U+1D491", "U+1D492",
    "U+1D493", "U+1D494", "U+1D495", "U+1D496", "U+1D497", "U+1D498",
    "U+1D499", "U+1D49A", "U+1D49B", "U+1D4B6", "U+1D4B7", "U+1D4B8",
    "U+1D4B9", "U+1D4BB", "U+1D4BD", "U+1D4BE", "U+1D4BF", "U+1D4C0",
    "U+1D4C1", "U+1D4C2", "U+1D4C3", "U+1D4C5", "U+1D4C6", "U+1D4C7",
    "U+1D4C8", "U+1D4C9", "U+1D4CA", "U+1D4CB", "U+1D4CC", "U+1D4CD",
    "U+1D4CE", "U+1D4CF", "U+1D4EA", "U+1D4EB", "U+1D4EC", "U+1D4ED",
    "U+1D4EE", "U+1D4EF", "U+1D4F0", "U+1D4F1", "U+1D4F2", "U+1D4F3",
    "U+1D4F4", "U+1D4F5", "U+1D4F6", "U+1D4F7", "U+1D4F8", "U+1D4F9",
    "U+1D4FA", "U+1D4FB", "U+1D4FC", "U+1D4FD", "U+1D4FE", "U+1D4FF",
    "U+1D500", "U+1D501", "U+1D502", "U+1D503", "U+1D51E", "U+1D51F",
    "U+1D520", "U+1D521", "U+1D522", "U+1D523", "U+1D524", "U+1D525",
    "U+1D526", "U+1D527", "U+1D528", "U+1D529", "U+1D52A", "U+1D52B",
    "U+1D52C", "U+1D52D", "U+1D52E", "U+1D52F", "U+1D530", "U+1D531",
    "U+1D532", "U+1D533", "U+1D534", "U+1D535", "U+1D536", "U+1D537",
    "U+1D552", "U+1D553", "U+1D554", "U+1D555", "U+1D556", "U+1D557",
    "U+1D558", "U+1D559", "U+1D55A", "U+1D55B", "U+1D55C", "U+1D55D",
    "U+1D55E", "U+1D55F", "U+1D560", "U+1D561", "U+1D562", "U+1D563",
    "U+1D564", "U+1D565", "U+1D566", "U+1D567", "U+1D568", "U+1D569",
    "U+1D56A", "U+1D56B", "U+1D586", "U+1D587", "U+1D588", "U+1D589",
    "U+1D58A", "U+1D58B", "U+1D58C", "U+1D58D", "U+1D58E", "U+1D58F",
    "U+1D590", "U+1D591", "U+1D592", "U+1D593", "U+1D594", "U+1D595",
    "U+1D596", "U+1D597", "U+1D598", "U+1D599", "U+1D59A", "U+1D59B",
    "U+1D59C", "U+1D59D", "U+1D59E", "U+1D59F", "U+1D5BA", "U+1D5BB",
    "U+1D5BC", "U+1D5BD", "U+1D5BE", "U+1D5BF", "U+1D5C0", "U+1D5C1",
    "U+1D5C2", "U+1D5C3", "U+1D5C4", "U+1D5C5", "U+1D5C6", "U+1D5C7",
    "U+1D5C8", "U+1D5C9", "U+1D5CA", "U+1D5CB", "U+1D5CC", "U+1D5CD",
    "U+1D5CE", "U+1D5CF", "U+1D5D0", "U+1D5D1", "U+1D5D2", "U+1D5D3",
    "U+1D5EE", "U+1D5EF", "U+1D5F0", "U+1D5F1", "U+1D5F2", "U+1D5F3",
    "U+1D5F4", "U+1D5F5", "U+1D5F6", "U+1D5F7", "U+1D5F8", "U+1D5F9",
    "U+1D5FA", "U+1D5FB", "U+1D5FC", "U+1D5FD", "U+1D5FE", "U+1D5FF",
    "U+1D600", "U+1D601", "U+1D602", "U+1D603", "U+1D604", "U+1D605",
    "U+1D606", "U+1D607", "U+1D622", "U+1D623", "U+1D624", "U+1D625",
    "U+1D626", "U+1D627", "U+1D628", "U+1D629", "U+1D62A", "U+1D62B",
    "U+1D62C", "U+1D62D", "U+1D62E", "U+1D62F", "U+1D630", "U+1D631",
    "U+1D632", "U+1D633", "U+1D634", "U+1D635", "U+1D636", "U+1D637",
    "U+1D638", "U+1D639", "U+1D63A", "U+1D63B", "U+1D656", "U+1D657",
    "U+1D658", "U+1D659", "U+1D65A", "U+1D65B", "U+1D65C", "U+1D65D",
    "U+1D65E", "U+1D65F", "U+1D660", "U+1D661", "U+1D662", "U+1D663",
    "U+1D664", "U+1D665", "U+1D666", "U+1D667", "U+1D668", "U+1D669",
    "U+1D66A", "U+1D66B", "U+1D66C", "U+1D66D", "U+1D66E", "U+1D66F",
    "U+1D68A", "U+1D68B", "U+1D68C", "U+1D68D", "U+1D68E", "U+1D68F",
    "U+1D690", "U+1D691", "U+1D692", "U+1D693", "U+1D694", "U+1D695",
    "U+1D696", "U+1D697", "U+1D698", "U+1D699", "U+1D69A", "U+1D69B",
    "U+1D69C", "U+1D69D", "U+1D69E", "U+1D69F", "U+1D6A0", "U+1D6A1",
    "U+1D6A2", "U+1D6A3", "U+1D6A4", "U+1D6A5", "U+1D6C2", "U+1D6C3",
    "U+1D6C4", "U+1D6C5", "U+1D6C6", "U+1D6C7", "U+1D6C8", "U+1D6C9",
    "U+1D6CA", "U+1D6CB", "U+1D6CC", "U+1D6CD", "U+1D6CE", "U+1D6CF",
    "U+1D6D0", "U+1D6D1", "U+1D6D2", "U+1D6D3", "U+1D6D4", "U+1D6D5",
    "U+1D6D6", "U+1D6D7", "U+1D6D8", "U+1D6D9", "U+1D6DA", "U+1D6DC",
    "U+1D6DD", "U+1D6DE", "U+1D6DF", "U+1D6E0", "U+1D6E1", "U+1D6FC",
    "U+1D6FD", "U+1D6FE", "U+1D6FF", "U+1D700", "U+1D701", "U+1D702",
    "U+1D703", "U+1D704", "U+1D705", "U+1D706", "U+1D707", "U+1D708",
    "U+1D709", "U+1D70A", "U+1D70B", "U+1D70C", "U+1D70D", "U+1D70E",
    "U+1D70F", "U+1D710", "U+1D711", "U+1D712", "U+1D713", "U+1D714",
    "U+1D716", "U+1D717", "U+1D718", "U+1D719", "U+1D71A", "U+1D71B",
    "U+1D736", "U+1D737", "U+1D738", "U+1D739", "U+1D73A", "U+1D73B",
    "U+1D73C", "U+1D73D", "U+1D73E", "U+1D73F", "U+1D740", "U+1D741",
    "U+1D742", "U+1D743", "U+1D744", "U+1D745", "U+1D746", "U+1D747",
    "U+1D748", "U+1D749", "U+1D74A", "U+1D74B", "U+1D74C", "U+1D74D",
    "U+1D74E", "U+1D750", "U+1D751", "U+1D752", "U+1D753", "U+1D754",
    "U+1D755", "U+1D770", "U+1D771", "U+1D772", "U+1D773", "U+1D774",
    "U+1D775", "U+1D776", "U+1D777", "U+1D778", "U+1D779", "U+1D77A",
    "U+1D77B", "U+1D77C", "U+1D77D", "U+1D77E", "U+1D77F", "U+1D780",
    "U+1D781", "U+1D782", "U+1D783", "U+1D784", "U+1D785", "U+1D786",
    "U+1D787", "U+1D788", "U+1D78A", "U+1D78B", "U+1D78C", "U+1D78D",
    "U+1D78E", "U+1D78F", "U+1D7AA", "U+1D7AB", "U+1D7AC", "U+1D7AD",
    "U+1D7AE", "U+1D7AF", "U+1D7B0", "U+1D7B1", "U+1D7B2", "U+1D7B3",
    "U+1D7B4", "U+1D7B5", "U+1D7B6", "U+1D7B7", "U+1D7B8", "U+1D7B9",
    "U+1D7BA", "U+1D7BB", "U+1D7BC", "U+1D7BD", "U+1D7BE", "U+1D7BF",
    "U+1D7C0", "U+1D7C1", "U+1D7C2", "U+1D7C4", "U+1D7C5", "U+1D7C6",
    "U+1D7C7", "U+1D7C8", "U+1D7C9", "U+1D7CB", "U+1DF00", "U+1DF01",
    "U+1DF02", "U+1DF03", "U+1DF04", "U+1DF05", "U+1DF06", "U+1DF07",
    "U+1DF08", "U+1DF09", "U+1DF0B", "U+1DF0C", "U+1DF0D", "U+1DF0E",
    "U+1DF0F", "U+1DF10", "U+1DF11", "U+1DF12", "U+1DF13", "U+1DF14",
    "U+1DF15", "U+1DF16", "U+1DF17", "U+1DF18", "U+1DF19", "U+1DF1A",
    "U+1DF1B", "U+1DF1C", "U+1DF1D", "U+1DF1E", "U+1E922", "U+1E923",
    "U+1E924", "U+1E925", "U+1E926", "U+1E927", "U+1E928", "U+1E929",
    "U+1E92A", "U+1E92B", "U+1E92C", "U+1E92D", "U+1E92E", "U+1E92F",
    "U+1E930", "U+1E931", "U+1E932", "U+1E933", "U+1E934", "U+1E935",
    "U+1E936", "U+1E937", "U+1E938", "U+1E939", "U+1E93A", "U+1E93B",
    "U+1E93C", "U+1E93D", "U+1E93E", "U+1E93F", "U+1E940", "U+1E941",
    "U+1E942", "U+1E943"}

\* str.upper(): the characters it changes ...
UpperFrom == <<
    "a", "b", "c", "d", "e", "f", "g", "h", "i", "j", "k", "l", "m", "n", "o",
    "p", "q", "r", "s", "t", "u", "v", "w", "x", "y", "z", "U+00B5", "U+00DF",
    "U+00E0", "U+00E1", "U+00E2", "U+00E3", "U+00E4", "U+00E5", "U+00E6",
    "U+00E7", "U+00E8", "U+00E9", "U+00EA", "U+00EB", "U+00EC", "U+00ED",
    "U+00EE", "U+00EF", "U+00F0", "U+00F1", "U+00F2", "U+00F3", "U+00F4",
    "U+00F5", "U+00F6", "U+00F8", "U+00F9", "U+00FA", "U+00FB", "U+00FC",
    "U+00FD", "U+00FE", "U+00FF", "U+0101", "U+0103", "U+0105", "U+0107",
    "U+0109", "U+010B", "U+010D", "U+010F", "U+0111", "U+0113", "U+0115",
    "U+0117", "U+0119", "U+011B", "U+011D", "U+011F", "U+0121", "U+0123",
    "U+0125", "U+0127", "U+0129", "U+012B", "U+012D", "U+012F", "U+0131",
    "U+0133", "U+0135", "U+0137", "U+013A", "U+013C", "U+013E", "U+0140",
    "U+0142", "U+0144", "U+0146", "U+0148", "U+0149", "U+014B", "U+014D",
    "U+014F", "U+0151", "U+0153", "U+0155", "U+0157", "U+0159", "U+015B",
    "U+015D", "U+015F", "U+0161", "U+0163", "U+0165", "U+0167", "U+0169",
    "U+016B", "U+016D", "U+016F", "U+0171", "U+0173", "U+0175", "U+0177",
    "U+017A", "U+017C", "U+017E", "U+017F", "U+0180", "U+0183", "U+0185",
    "U+0188", "U+018C", "U+0192", "U+0195", "U+0199", "U+019A", "U+019E",
    "U+01A1", "U+01A3", "U+01A5", "U+01A8", "U+01AD", "U+01B0", "U+01B4",
    "U+01B6", "U+01B9", "U+01BD", "U+01BF", "U+01C5", "U+01C6", "U+01C8",
    "U+01C9", "U+01CB", "U+01CC", "U+01CE", "U+01D0", "U+01D2", "U+01D4",
    "U+01D6", "U+01D8", "U+01DA", "U+01DC", "U+01DD", "U+01DF", "U+01E1",
    "U+01E3", "U+01E5", "U+01E7", "U+01E9", "U+01EB", "U+01ED", "U+01EF",
    "U+01F0", "U+01F2", "U+01F3", "U+01F5", "U+01F9", "U+01FB", "U+01FD",
    "U+01FF", "U+0201", "U+0203", "U+0205", "U+0207", "U+0209", "U+020B",
    "U+020D", "U+020F", "U+0211", "U+0213", "U+0215", "U+0217", "U+0219",
    "U+021B", "U+021D", "U+021F", "U+0223", "U+0225", "U+0227", "U+0229",
    "U+022B", "U+022D", "U+022F", "U+0231", "U+0233", "U+023C", "U+023F",
    "U+0240", "U+0242", "U+0247", "U+0249", "U+024B", "U+024D", "U+024F",
    "U+0250", "U+0251", "U+0252", "U+0253", "U+0254", "U+0256", "U+0257",
    "U+0259", "U+025B", "U+025C", "U+0260", "U+0261", "U+0263", "U+0265",
    "U+0266", "U+0268", "U+0269", "U+026A", "U+026B", "U+026C", "U+026F",
    "U+0271", "U+0272", "U+0275", "U+027D", "U+0280", "U+0282", "U+0283",
    "U+0287", "U+0288", "U+0289", "U+028A", "U+028B", "U+028C", "U+0292",
    "U+029D", "U+029E", "U+0345", "U+0371", "U+0373", "U+0377", "U+037B",
    "U+037C", "U+037D", "U+0390", "U+03AC", "U+03AD", "U+03AE", "U+03AF",
    "U+03B0", "U+03B1", "U+03B2", "U+03B3", "U+03B4", "U+03B5", "U+03B6",
    "U+03B7", "U+03B8", "U+03B9", "U+03BA", "U+03BB", "U+03BC", "U+03BD",
    "U+03BE", "U+03BF", "U+03C0", "U+03C1", "U+03C2", "U+03C3", "U+03C4",
    "U+03C5", "U+03C6", "U+03C7", "U+03C8", "U+03C9", "U+03CA", "U+03CB",
    "U+03CC", "U+03CD", "U+03CE", "U+03D0", "U+03D1", "U+03D5", "U+03D6",
    "U+03D7", "U+03D9", "U+03DB", "U+03DD", "U+03DF", "U+03E1", "U+03E3",
    "U+03E5", "U+03E7", "U+03E9", "U+03EB", "U+03ED", "U+03EF", "U+03F0",
    "U+03F1", "U+03F2", "U+03F3", "U+03F5", "U+03F8", "U+03FB", "U+0430",
    "U+0431", "U+0432", "U+0433", "U+0434", "U+0435", "U+0436", "U+0437",
    "U+0438", "U+0439", "U+043A", "U+043B", "U+043C", "U+043D", "U+043E",
    "U+043F", "U+0440", "U+0441", "U+0442", "U+0443", "U+0444", "U+0445",
    "U+0446", "U+0447", "U+0448", "U+0449", "U+044A", "U+044B", "U+044C",
    "U+044D", "U+044E", "U+044F", "U+0450", "U+0451", "U+0452", "U+0453",
    "U+0454", "U+0455", "U+0456", "U+0457", "U+0458", "U+0459", "U+045A",
    "U+045B", "U+045C", "U+045D", "U+045E", "U+045F", "U+0461", "U+0463",
    "U+0465", "U+0467", "U+0469", "U+046B", "U+046D", "U+046F", "U+0471",
    "U+0473", "U+0475", "U+0477", "U+0479", "U+047B", "U+047D", "U+047F",
    "U+0481", "U+048B", "U+048D", "U+048F", "U+0491", "U+0493", "U+0495",
    "U+0497", "U+0499", "U+049B", "U+049D", "U+049F", "U+04A1", "U+04A3",
    "U+04A5", "U+04A7", "U+04A9", "U+04AB", "U+04AD", "U+04AF", "U+04B1",
    "U+04B3", "U+04B5", "U+04B7", "U+04B9", "U+04BB", "U+04BD", "U+04BF",
    "U+04C2", "U+04C4", "U+04C6", "U+04C8", "U+04CA", "U+04CC", "U+04CE",
    "U+04CF", "U+04D1", "U+04D3", "U+04D5", "U+04D7", "U+04D9", "U+04DB",
    "U+04DD", "U+04DF", "U+04E1", "U+04E3", "U+04E5", "U+04E7", "U+04E9",
    "U+04EB", "U+04ED", "U+04EF", "U+04F1", "U+04F3", "U+04F5", "U+04F7",
    "U+04F9", "U+04FB", "U+04FD", "U+04FF", "U+0501", "U+0503", "U+0505",
    "U+0507", "U+0509", "U+050B", "U+050D", "U+050F", "U+0511", "U+0513",
    "U+0515", "U+0517", "U+0519", "U+051B", "U+051D", "U+051F", "U+0521",
    "U+0523", "U+0525", "U+0527", "U+0529", "U+052B", "U+052D", "U+052F",
    "U+0561", "U+0562", "U+0563", "U+0564", "U+0565", "U+0566", "U+0567",
    "U+0568", "U+0569", "U+056A", "U+056B", "U+056C", "U+056D", "U+056E",
    "U+056F", "U+0570", "U+0571", "U+0572", "U+0573", "U+0574", "U+0575",
    "U+0576", "U+0577", "U+0578", "U+0579", "U+057A", "U+057B", "U+057C",
    "U+057D", "U+057E", "U+057F", "U+0580", "U+0581", "U+0582", "U+0583",
    "U+0584", "U+0585", "U+0586", "U+0587", "U+10D0", "U+10D1", "U+10D2",
    "U+10D3", "U+10D4", "U+10D5", "U+10D6", "U+10D7", "U+10D8", "U+10D9",
    "U+10DA", "U+10DB", "U+10DC", "U+10DD", "U+10DE", "U+10DF", "U+10E0",
    "U+10E1", "U+10E2", "U+10E3", "U+10E4", "U+10E5", "U+10E6", "U+10E7",
    "U+10E8", "U+10E9", "U+10EA", "U+10EB", "U+10EC", "U+10ED", "U+10EE",
    "U+10EF", "U+10F0", "U+10F1", "U+10F2", "U+10F3", "U+10F4", "U+10F5",
    "U+10F6", "U+10F7", "U+10F8", "U+10F9", "U+10FA", "U+10FD", "U+10FE",
    "U+10FF", "U+13F8", "U+13F9", "U+13FA", "U+13FB", "U+13FC", "U+13FD",
    "U+1C80", "U+1C81", "U+1C82", "U+1C83", "U+1C84", "U+1C85", "U+1C86",
    "U+1C87", "U+1C88", "U+1D79", "U+1D7D", "U+1D8E", "U+1E01", "U+1E03",
    "U+1E05", "U+1E07", "U+1E09", "U+1E0B", "U+1E0D", "U+1E0F", "U+1E11",
    "U+1E13", "U+1E15", "U+1E17", "U+1E19", "U+1E1B", "U+1E1D", "U+1E1F",
    "U+1E21", "U+1E23", "U+1E25", "U+1E27", "U+1E29", "U+1E2B", "U+1E2D",
    "U+1E2F", "U+1E31", "U+1E33", "U+1E35", "U+1E37", "U+1E39", "U+1E3B",
    "U+1E3D", "U+1E3F", "U+1E41", "U+1E43", "U+1E45", "U+1E47", "U+1E49",
    "U+1E4B", "U+1E4D", "U+1E4F", "U+1E51", "U+1E53", "U+1E55", "U+1E57",
    "U+1E59", "U+1E5B", "U+1E5D", "U+1E5F", "U+1E61", "U+1E63", "U+1E65",
    "U+1E67", "U+1E69", "U+1E6B", "U+1E6D", "U+1E6F", "U+1E71", "U+1E73",
    "U+1E75", "U+1E77", "U+1E79", "U+1E7B", "U+1E7D", "U+1E7F", "U+1E81",
    "U+1E83", "U+1E85", "U+1E87", "U+1E89", "U+1E8B", "U+1E8D", "U+1E8F",
    "U+1E91", "U+1E93", "U+1E95", "U+1E96", "U+1E97", "U+1E98", "U+1E99",
    "U+1E9A", "U+1E9B", "U+1EA1", "U+1EA3", "U+1EA5", "U+1EA7", "U+1EA9",
    "U+1EAB", "U+1EAD", "U+1EAF", "U+1EB1", "U+1EB3", "U+1EB5", "U+1EB7",
    "U+1EB9", "U+1EBB", "U+1EBD", "U+1EBF", "U+1EC1", "U+1EC3", "U+1EC5",
    "U+1EC7", "U+1EC9", "U+1ECB", "U+1ECD", "U+1ECF", "U+1ED1", "U+1ED3",
    "U+1ED5", "U+1ED7", "U+1ED9", "U+1EDB", "U+1EDD", "U+1EDF", "U+1EE1",
    "U+1EE3", "U+1EE5", "U+1EE7", "U+1EE9", "U+1EEB", "U+1EED", "U+1EEF",
    "U+1EF1", "U+1EF3", "U+1EF5", "U+1EF7", "U+1EF9", "U+1EFB", "U+1EFD",
    "U+1EFF", "U+1F00", "U+1F01", "U+1F02", "U+1F03", "U+1F04", "U+1F05",
    "U+1F06", "U+1F07", "U+1F10", "U+1F11", "U+1F12", "U+1F13", "U+1F14",
    "U+1F15", "U+1F20", "U+1F21", "U+1F22", "U+1F23", "U+1F24", "U+1F25",
    "U+1F26", "U+1F27", "U+1F30", "U+1F31", "U+1F32", "U+1F33", "U+1F34",
    "U+1F35", "U+1F36", "U+1F37", "U+1F40", "U+1F41", "U+1F42", "U+1F43",
    "U+1F44", "U+1F45", "U+1F50", "U+1F51", "U+1F52", "U+1F53", "U+1F54",
    "U+1F55", "U+1F56", "U+1F57", "U+1F60", "U+1F61", "U+1F62", "U+1F63",
    "U+1F64", "U+1F65", "U+1F66", "U+1F67", "U+1F70", "U+1F71", "U+1F72",
    "U+1F73", "U+1F74", "U+1F75", "U+1F76", "U+1F77", "U+1F78", "U+1F79",
    "U+1F7A", "U+1F7B", "U+1F7C", "U+1F7D", "U+1F80", "U+1F81", "U+1F82",
    "U+1F83", "U+1F84", "U+1F85", "U+1F86", "U+1F87", "U+1F88", "U+1F89",
    "U+1F8A", "U+1F8B", "U+1F8C", "U+1F8D", "U+1F8E", "U+1F8F", "U+1F90",
    "U+1F91", "U+1F92", "U+1F93", "U+1F94", "U+1F95", "U+1F96", "U+1F97",
    "U+1F98", "U+1F99", "U+1F9A", "U+1F9B", "U+1F9C", "U+1F9D", "U+1F9E",
    "U+1F9F", "U+1FA0", "U+1FA1", "U+1FA2", "U+1FA3", "U+1FA4", "U+1FA5",
    "U+1FA6", "U+1FA7", "U+1FA8", "U+1FA9", "U+1FAA", "U+1FAB", "U+1FAC",
    "U+1FAD", "U+1FAE", "U+1FAF", "U+1FB0", "U+1FB1", "U+1FB2", "U+1FB3",
    "U+1FB4", "U+1FB6", "U+1FB7", "U+1FBC", "U+1FBE", "U+1FC2", "U+1FC3",
    "U+1FC4", "U+1FC6", "U+1FC7", "U+1FCC", "U+1FD0", "U+1FD1", "U+1FD2",
    "U+1FD3", "U+1FD6", "U+1FD7", "U+1FE0", "U+1FE1", "U+1FE2", "U+1FE3",
    "U+1FE4", "U+1FE5", "U+1FE6", "U+1FE7", "U+1FF2", "U+1FF3", "U+1FF4",
    "U+1FF6", "U+1FF7", "U+1FFC", "U+214E", "U+2170", "U+2171", "U+2172",
    "U+2173", "U+2174", "U+2175", "U+2176", "U+2177", "U+2178", "U+2179",
    "U+217A", "U+217B", "U+217C", "U+217D", "U+217E", "U+217F", "U+2184",
    "U+24D0", "U+24D1", "U+24D2", "U+24D3", "U+24D4", "U+24D5", "U+24D6",
    "U+24D7", "U+24D8", "U+24D9", "U+24DA", "U+24DB", "U+24DC", "U+24DD",
    "U+24DE", "U+24DF", "U+24E0", "U+24E1", "U+24E2", "U+24E3", "U+24E4",
    "U+24E5", "U+24E6", "U+24E7", "U+24E8", "U+24E9", "U+2C30", "U+2C31",
    "U+2C32", "U+2C33", "U+2C34", "U+2C35", "U+2C36", "U+2C37", "U+2C38",
    "U+2C39", "U+2C3A", "U+2C3B", "U+2C3C", "U+2C3D", "U+2C3E", "U+2C3F",
    "U+2C40", "U+2C41", "U+2C42", "U+2C43", "U+2C44", "U+2C45", "U+2C46",
    "U+2C47", "U+2C48", "U+2C49", "U+2C4A", "U+2C4B", "U+2C4C", "U+2C4D",
    "U+2C4E", "U+2C4F", "U+2C50", "U+2C51", "U+2C52", "U+2C53", "U+2C54",
    "U+2C55", "U+2C56", "U+2C57", "U+2C58", "U+2C59", "U+2C5A", "U+2C5B",
    "U+2C5C", "U+2C5D", "U+2C5E", "U+2C5F", "U+2C61", "U+2C65", "U+2C66",
    "U+2C68", "U+2C6A", "U+2C6C", "U+2C73", "U+2C76", "U+2C81", "U+2C83",
    "U+2C85", "U+2C87", "U+2C89", "U+2C8B", "U+2C8D", "U+2C8F", "U+2C91",
    "U+2C93", "U+2C95", "U+2C97", "U+2C99", "U+2C9B", "U+2C9D", "U+2C9F",
    "U+2CA1", "U+2CA3", "U+2CA5", "U+2CA7", "U+2CA9", "U+2CAB", "U+2CAD",
    "U+2CAF", "U+2CB1", "U+2CB3", "U+2CB5", "U+2CB7", "U+2CB9", "U+2CBB",
    "U+2CBD", "U+2CBF", "U+2CC1", "U+2CC3", "U+2CC5", "U+2CC7", "U+2CC9",
    "U+2CCB", "U+2CCD", "U+2CCF", "U+2CD1", "U+2CD3", "U+2CD5", "U+2CD7",
    "U+2CD9", "U+2CDB", "U+2CDD", "U+2CDF", "U+2CE1", "U+2CE3", "U+2CEC",
    "U+2CEE", "U+2CF3", "U+2D00", "U+2D01", "U+2D02", "U+2D03", "U+2D04",
    "U+2D05", "U+2D06", "U+2D07", "U+2D08", "U+2D09", "U+2D0A", "U+2D0B",
    "U+2D0C", "U+2D0D", "U+2D0E", "U+2D0F", "U+2D10", "U+2D11", "U+2D12",
    "U+2D13", "U+2D14", "U+2D15", "U+2D16", "U+2D17", "U+2D18", "U+2D19",
    "U+2D1A", "U+2D1B", "U+2D1C", "U+2D1D", "U+2D1E", "U+2D1F", "U+2D20",
    "U+2D21", "U+2D22", "U+2D23", "U+2D24", "U+2D25", "U+2D27", "U+2D2D",
    "U+A641", "U+A643", "U+A645", "U+A647", "U+A649", "U+A64B", "U+A64D",
    "U+A64F", "U+A651", "U+A653", "U+A655", "U+A657", "U+A659", "U+A65B",
    "U+A65D", "U+A65F", "U+A661", "U+A663", "U+A665", "U+A667", "U+A669",
    "U+A66B", "U+A66D", "U+A681", "U+A683", "U+A685", "U+A687", "U+A689",
    "U+A68B", "U+A68D", "U+A68F", "U+A691", "U+A693", "U+A695", "U+A697",
    "U+A699", "U+A69B", "U+A723", "U+A725", "U+A727", "U+A729", "U+A72B",
    "U+A72D", "U+A72F", "U+A733", "U+A735", "U+A737", "U+A739", "U+A73B",
    "U+A73D", "U+A73F", "U+A741", "U+A743", "U+A745", "U+A747", "U+A749",
    "U+A74B", "U+A74D", "U+A74F", "U+A751", "U+A753", "U+A755", "U+A757",
    "U+A759", "U+A75B", "U+A75D", "U+A75F", "U+A761", "U+A763", "U+A765",
    "U+A767", "U+A769", "U+A76B", "U+A76D", "U+A76F", "U+A77A", "U+A77C",
    "U+A77F", "U+A781", "U+A783", "U+A785", "U+A787", "U+A78C", "U+A791",
    "U+A793", "U+A794", "U+A797", "U+A799", "U+A79B", "U+A79D", "U+A79F",
    "U+A7A1", "U+A7A3", "U+A7A5", "U+A7A7", "U+A7A9", "U+A7B5", "U+A7B7",
    "U+A7B9", "U+A7BB", "U+A7BD", "U+A7BF", "U+A7C1", "U+A7C3", "U+A7C8",
    "U+A7CA", "U+A7D1", "U+A7D7", "U+A7D9", "U+A7F6", "U+AB53", "U+AB70",
    "U+AB71", "U+AB72", "U+AB73", "U+AB74", "U+AB75", "U+AB76", "U+AB77",
    "U+AB78", "U+AB79", "U+AB7A", "U+AB7B", "U+AB7C", "U+AB7D", "U+AB7E",
    "U+AB7F", "U+AB80", "U+AB81", "U+AB82", "U+AB83", "U+AB84", "U+AB85",
    "U+AB86", "U+AB87", "U+AB88", "U+AB89", "U+AB8A", "U+AB8B", "U+AB8C",
    "U+AB8D", "U+AB8E", "U+AB8F", "U+AB90", "U+AB91", "U+AB92", "U+AB93",
    "U+AB94", "U+AB95", "U+AB96", "U+AB97", "U+AB98", "U+AB99", "U+AB9A",
    "U+AB9B", "U+AB9C", "U+AB9D", "U+AB9E", "U+AB9F", "U+ABA0", "U+ABA1",
    "U+ABA2", "U+ABA3", "U+ABA4", "U+ABA5", "U+ABA6", "U+ABA7", "U+ABA8",
    "U+ABA9", "U+ABAA", "U+ABAB", "U+ABAC", "U+ABAD", "U+ABAE", "U+ABAF",
    "U+ABB0", "U+ABB1", "U+ABB2", "U+ABB3", "U+ABB4", "U+ABB5", "U+ABB6",
    "U+ABB7", "U+ABB8", "U+ABB9", "U+ABBA", "U+ABBB", "U+ABBC", "U+ABBD",
    "U+ABBE", "U+ABBF", "U+FB00", "U+FB01", "U+FB02", "U+FB03", "U+FB04",
    "U+FB05", "U+FB06", "U+FB13", "U+FB14", "U+FB15", "U+FB16", "U+FB17",
    "U+FF41", "U+FF42", "U+FF43", "U+FF44", "U+FF45", "U+FF46", "U+FF47",
    "U+FF48", "U+FF49", "U+FF4A", "U+FF4B", "U+FF4C", "U+FF4D", "U+FF4E",
    "U+FF4F", "U+FF50", "U+FF51", "U+FF52", "U+FF53", "U+FF54", "U+FF55",
    "U+FF56", "U+FF57", "U+FF58", "U+FF59", "U+FF5A", "U+10428", "U+10429",
    "U+1042A", "U+1042B", "U+1042C", "U+1042D", "U+1042E", "U+1042F",
    "U+10430", "U+10431", "U+10432", "U+10433", "U+10434", "U+10435",
    "U+10436", "U+10437", "U+10438", "U+10439", "U+1043A", "U+1043B",
    "U+1043C", "U+1043D", "U+1043E", "U+1043F", "U+10440", "U+10441",
    "U+10442", "U+10443", "U+10444", "U+10445", "U+10446", "U+10447",
    "U+10448", "U+10449", "U+1044A", "U+1044B", "U+1044C", "U+1044D",
    "U+1044E", "U+1044F", "U+104D8", "U+104D9", "U+104DA", "U+104DB",
    "U+104DC", "U+104DD", "U+104DE", "U+104DF", "U+104E0", "U+104E1",
    "U+104E2", "U+104E3", "U+104E4", "U+104E5", "U+104E6", "U+104E7",
    "U+104E8", "U+104E9", "U+104EA", "U+104EB", "U+104EC", "U+104ED",
    "U+104EE", "U+104EF", "U+104F0", "U+104F1", "U+104F2", "U+104F3",
    "U+104F4", "U+104F5", "U+104F6", "U+104F7", "U+104F8", "U+104F9",
    "U+104FA", "U+104FB", "U+10597", "U+10598", "U+10599", "U+1059A",
    "U+1059B", "U+1059C", "U+1059D", "U+1059E", "U+1059F", "U+105A0",
    "U+105A1", "U+105A3", "U+105A4", "U+105A5", "U+105A6", "U+105A7",
    "U+105A8", "U+105A9", "U+105AA", "U+105AB", "U+105AC", "U+105AD",
    "U+105AE", "U+105AF", "U+105B0", "U+105B1", "U+105B3", "U+105B4",
    "U+105B5", "U+105B6", "U+105B7", "U+105B8", "U+105B9", "U+105BB",
    "U+105BC", "U+10CC0", "U+10CC1", "U+10CC2", "U+10CC3", "U+10CC4",
    "U+10CC5", "U+10CC6", "U+10CC7", "U+10CC8", "U+10CC9", "U+10CCA",
    "U+10CCB", "U+10CCC", "U+10CCD", "U+10CCE", "U+10CCF", "U+10CD0",
    "U+10CD1", "U+10CD2", "U+10CD3", "U+10CD4", "U+10CD5", "U+10CD6",
    "U+10CD7", "U+10CD8", "U+10CD9", "U+10CDA", "U+10CDB", "U+10CDC",
    "U+10CDD", "U+10CDE", "U+10CDF", "U+10CE0", "U+10CE1", "U+10CE2",
    "U+10CE3", "U+10CE4", "U+10CE5", "U+10CE6", "U+10CE7", "U+10CE8",
    "U+10CE9", "U+10CEA", "U+10CEB", "U+10CEC", "U+10CED", "U+10CEE",
    "U+10CEF", "U+10CF0", "U+10CF1", "U+10CF2", "U+118C0", "U+118C1",
    "U+118C2", "U+118C3", "U+118C4", "U+118C5", "U+118C6", "U+118C7",
    "U+118C8", "U+118C9", "U+118CA", "U+118CB", "U+118CC", "U+118CD",
    "U+118CE", "U+118CF", "U+118D0", "U+118D1", "U+118D2", "U+118D3",
    "U+118D4", "U+118D5", "U+118D6", "U+118D7", "U+118D8", "U+118D9",
    "U+118DA", "U+118DB", "U+118DC", "U+118DD", "U+118DE", "U+118DF",
    "U+16E60", "U+16E61", "U+16E62", "U+16E63", "U+16E64", "U+16E65",
    "U+16E66", "U+16E67", "U+16E68", "U+16E69", "U+16E6A", "U+16E6B",
    "U+16E6C", "U+16E6D", "U+16E6E", "U+16E6F", "U+16E70", "U+16E71",
    "U+16E72", "U+16E73", "U+16E74", "U+16E75", "U+16E76", "U+16E77",
    "U+16E78", "U+16E79", "U+16E7A", "U+16E7B", "U+16E7C", "U+16E7D",
    "U+16E7E", "U+16E7F", "U+1E922", "U+1E923", "U+1E924", "U+1E925",
    "U+1E926", "U+1E927", "U+1E928", "U+1E929", "U+1E92A", "U+1E92B",
    "U+1E92C", "U+1E92D", "U+1E92E", "U+1E92F", "U+1E930", "U+1E931",
    "U+1E932", "U+1E933", "U+1E934", "U+1E935", "U+1E936", "U+1E937",
    "U+1E938", "U+1E939", "U+1E93A", "U+1E93B", "U+1E93C", "U+1E93D",
    "U+1E93E", "U+1E93F", "U+1E940", "U+1E941", "U+1E942", "U+1E943">>

\* ... and what each of them becomes (one to three characters)
UpperTo == <<
    <<"A">>, <<"B">>, <<"C">>, <<"D">>, <<"E">>, <<"F">>, <<"G">>, <<"H">>,
    <<"I">>, <<"J">>, <<"K">>, <<"L">>, <<"M">>, <<"N">>, <<"O">>, <<"P">>,
    <<"Q">>, <<"R">>, <<"S">>, <<"T">>, <<"U">>, <<"V">>, <<"W">>, <<"X">>,
    <<"Y">>, <<"Z">>, <<"U+039C">>, <<"S", "S">>, <<"U+00C0">>, <<"U+00C1">>,
    <<"U+00C2">>, <<"U+00C3">>, <<"U+00C4">>, <<"U+00C5">>, <<"U+00C6">>,
    <<"U+00C7">>, <<"U+00C8">>, <<"U+00C9">>, <<"U+00CA">>, <<"U+00CB">>,
    <<"U+00CC">>, <<"U+00CD">>, <<"U+00CE">>, <<"U+00CF">>, <<"U+00D0">>,
    <<"U+00D1">>, <<"U+00D2">>, <<"U+00D3">>, <<"U+00D4">>, <<"U+00D5">>,
    <<"U+00D6">>, <<"U+00D8">>, <<"U+00D9">>, <<"U+00DA">>, <<"U+00DB">>,
    <<"U+00DC">>, <<"U+00DD">>, <<"U+00DE">>, <<"U+0178">>, <<"U+0100">>,
    <<"U+0102">>, <<"U+0104">>, <<"U+0106">>, <<"U+0108">>, <<"U+010A">>,
    <<"U+010C">>, <<"U+010E">>, <<"U+0110">>, <<"U+0112">>, <<"U+0114">>,
    <<"U+0116">>, <<"U+0118">>, <<"U+011A">>, <<"U+011C">>, <<"U+011E">>,
    <<"U+0120">>, <<"U+0122">>, <<"U+0124">>, <<"U+0126">>, <<"U+0128">>,
    <<"U+012A">>, <<"U+012C">>, <<"U+012E">>, <<"I">>, <<"U+0132">>,
    <<"U+0134">>, <<"U+0136">>, <<"U+0139">>, <<"U+013B">>, <<"U+013D">>,
    <<"U+013F">>, <<"U+0141">>, <<"U+0143">>, <<"U+0145">>, <<"U+0147">>,
    <<"U+02BC", "N">>, <<"U+014A">>, <<"U+014C">>, <<"U+014E">>, <<"U+0150">>,
    <<"U+0152">>, <<"U+0154">>, <<"U+0156">>, <<"U+0158">>, <<"U+015A">>,
    <<"U+015C">>, <<"U+015E">>, <<"U+0160">>, <<"U+0162">>, <<"U+0164">>,
    <<"U+0166">>, <<"U+0168">>, <<"U+016A">>, <<"U+016C">>, <<"U+016E">>,
    <<"U+0170">>, <<"U+0172">>, <<"U+0174">>, <<"U+0176">>, <<"U+0179">>,
    <<"U+017B">>, <<"U+017D">>, <<"S">>, <<"U+0243">>, <<"U+0182">>,
    <<"U+0184">>, <<"U+0187">>, <<"U+018B">>, <<"U+0191">>, <<"U+01F6">>,
    <<"U+0198">>, <<"U+023D">>, <<"U+0220">>, <<"U+01A0">>, <<"U+01A2">>,
    <<"U+01A4">>, <<"U+01A7">>, <<"U+01AC">>, <<"U+01AF">>, <<"U+01B3">>,
    <<"U+01B5">>, <<"U+01B8">>, <<"U+01BC">>, <<"U+01F7">>, <<"U+01C4">>,
    <<"U+01C4">>, <<"U+01C7">>, <<"U+01C7">>, <<"U+01CA">>, <<"U+01CA">>,
    <<"U+01CD">>, <<"U+01CF">>, <<"U+01D1">>, <<"U+01D3">>, <<"U+01D5">>,
    <<"U+01D7">>, <<"U+01D9">>, <<"U+01DB">>, <<"U+018E">>, <<"U+01DE">>,
    <<"U+01E0">>, <<"U+01E2">>, <<"U+01E4">>, <<"U+01E6">>, <<"U+01E8">>,
    <<"U+01EA">>, <<"U+01EC">>, <<"U+01EE">>, <<"J", "U+030C">>, <<"U+01F1">>,
    <<"U+01F1">>, <<"U+01F4">>, <<"U+01F8">>, <<"U+01FA">>, <<"U+01FC">>,
    <<"U+01FE">>, <<"U+0200">>, <<"U+0202">>, <<"U+0204">>, <<"U+0206">>,
    <<"U+0208">>, <<"U+020A">>, <<"U+020C">>, <<"U+020E">>, <<"U+0210">>,
    <<"U+0212">>, <<"U+0214">>, <<"U+0216">>, <<"U+0218">>, <<"U+021A">>,
    <<"U+021C">>, <<"U+021E">>, <<"U+0222">>, <<"U+0224">>, <<"U+0226">>,
    <<"U+0228">>, <<"U+022A">>, <<"U+022C">>, <<"U+022E">>, <<"U+0230">>,
    <<"U+0232">>, <<"U+023B">>, <<"U+2C7E">>, <<"U+2C7F">>, <<"U+0241">>,
    <<"U+0246">>, <<"U+0248">>, <<"U+024A">>, <<"U+024C">>, <<"U+024E">>,
    <<"U+2C6F">>, <<"U+2C6D">>, <<"U+2C70">>, <<"U+0181">>, <<"U+0186">>,
    <<"U+0189">>, <<"U+018A">>, <<"U+018F">>, <<"U+0190">>, <<"U+A7AB">>,
    <<"U+0193">>, <<"U+A7AC">>, <<"U+0194">>, <<"U+A78D">>, <<"U+A7AA">>,
    <<"U+0197">>, <<"U+0196">>, <<"U+A7AE">>, <<"U+2C62">>, <<"U+A7AD">>,
    <<"U+019C">>, <<"U+2C6E">>, <<"U+019D">>, <<"U+019F">>, <<"U+2C64">>,
    <<"U+01A6">>, <<"U+A7C5">>, <<"U+01A9">>, <<"U+A7B1">>, <<"U+01AE">>,
    <<"U+0244">>, <<"U+01B1">>, <<"U+01B2">>, <<"U+0245">>, <<"U+01B7">>,
    <<"U+A7B2">>, <<"U+A7B0">>, <<"U+0399">>, <<"U+0370">>, <<"U+0372">>,
    <<"U+0376">>, <<"U+03FD">>, <<"U+03FE">>, <<"U+03FF">>,
    <<"U+0399", "U+0308", "U+0301">>, <<"U+0386">>, <<"U+0388">>,
    <<"U+0389">>, <<"U+038A">>, <<"U+03A5", "U+0308", "U+0301">>,
    <<"U+0391">>, <<"U+0392">>, <<"U+0393">>, <<"U+0394">>, <<"U+0395">>,
    <<"U+0396">>, <<"U+0397">>, <<"U+0398">>, <<"U+0399">>, <<"U+039A">>,
    <<"U+039B">>, <<"U+039C">>, <<"U+039D">>, <<"U+039E">>, <<"U+039F">>,
    <<"U+03A0">>, <<"U+03A1">>, <<"U+03A3">>, <<"U+03A3">>, <<"U+03A4">>,
    <<"U+03A5">>, <<"U+03A6">>, <<"U+03A7">>, <<"U+03A8">>, <<"U+03A9">>,
    <<"U+03AA">>, <<"U+03AB">>, <<"U+038C">>, <<"U+038E">>, <<"U+038F">>,
    <<"U+0392">>, <<"U+0398">>, <<"U+03A6">>, <<"U+03A0">>, <<"U+03CF">>,
    <<"U+03D8">>, <<"U+03DA">>, <<"U+03DC">>, <<"U+03DE">>, <<"U+03E0">>,
    <<"U+03E2">>, <<"U+03E4">>, <<"U+03E6">>, <<"U+03E8">>, <<"U+03EA">>,
    <<"U+03EC">>, <<"U+03EE">>, <<"U+039A">>, <<"U+03A1">>, <<"U+03F9">>,
    <<"U+037F">>, <<"U+0395">>, <<"U+03F7">>, <<"U+03FA">>, <<"U+0410">>,
    <<"U+0411">>, <<"U+0412">>, <<"U+0413">>, <<"U+0414">>, <<"U+0415">>,
    <<"U+0416">>, <<"U+0417">>, <<"U+0418">>, <<"U+0419">>, <<"U+041A">>,
    <<"U+041B">>, <<"U+041C">>, <<"U+041D">>, <<"U+041E">>, <<"U+041F">>,
    <<"U+0420">>, <<"U+0421">>, <<"U+0422">>, <<"U+0423">>, <<"U+0424">>,
    <<"U+0425">>, <<"U+0426">>, <<"U+0427">>, <<"U+0428">>, <<"U+0429">>,
    <<"U+042A">>, <<"U+042B">>, <<"U+042C">>, <<"U+042D">>, <<"U+042E">>,
    <<"U+042F">>, <<"U+0400">>, <<"U+0401">>, <<"U+0402">>, <<"U+0403">>,
    <<"U+0404">>, <<"U+0405">>, <<"U+0406">>, <<"U+0407">>, <<"U+0408">>,
    <<"U+0409">>, <<"U+040A">>, <<"U+040B">>, <<"U+040C">>, <<"U+040D">>,
    <<"U+040E">>, <<"U+040F">>, <<"U+0460">>, <<"U+0462">>, <<"U+0464">>,
    <<"U+0466">>, <<"U+0468">>, <<"U+046A">>, <<"U+046C">>, <<"U+046E">>,
    <<"U+0470">>, <<"U+0472">>, <<"U+0474">>, <<"U+0476">>, <<"U+0478">>,
    <<"U+047A">>, <<"U+047C">>, <<"U+047E">>, <<"U+0480">>, <<"U+048A">>,
    <<"U+048C">>, <<"U+048E">>, <<"U+0490">>, <<"U+0492">>, <<"U+0494">>,
    <<"U+0496">>, <<"U+0498">>, <<"U+049A">>, <<"U+049C">>, <<"U+049E">>,
    <<"U+04A0">>, <<"U+04A2">>, <<"U+04A4">>, <<"U+04A6">>, <<"U+04A8">>,
    <<"U+04AA">>, <<"U+04AC">>, <<"U+04AE">>, <<"U+04B0">>, <<"U+04B2">>,
    <<"U+04B4">>, <<"U+04B6">>, <<"U+04B8">>, <<"U+04BA">>, <<"U+04BC">>,
    <<"U+04BE">>, <<"U+04C1">>, <<"U+04C3">>, <<"U+04C5">>, <<"U+04C7">>,
    <<"U+04C9">>, <<"U+04CB">>, <<"U+04CD">>, <<"U+04C0">>, <<"U+04D0">>,
    <<"U+04D2">>, <<"U+04D4">>, <<"U+04D6">>, <<"U+04D8">>, <<"U+04DA">>,
    <<"U+04DC">>, <<"U+04DE">>, <<"U+04E0">>, <<"U+04E2">>, <<"U+04E4">>,
    <<"U+04E6">>, <<"U+04E8">>, <<"U+04EA">>, <<"U+04EC">>, <<"U+04EE">>,
    <<"U+04F0">>, <<"U+04F2">>, <<"U+04F4">>, <<"U+04F6">>, <<"U+04F8">>,
    <<"U+04FA">>, <<"U+04FC">>, <<"U+04FE">>, <<"U+0500">>, <<"U+0502">>,
    <<"U+0504">>, <<"U+0506">>, <<"U+0508">>, <<"U+050A">>, <<"U+050C">>,
    <<"U+050E">>, <<"U+0510">>, <<"U+0512">>, <<"U+0514">>, <<"U+0516">>,
    <<"U+0518">>, <<"U+051A">>, <<"U+051C">>, <<"U+051E">>, <<"U+0520">>,
    <<"U+0522">>, <<"U+0524">>, <<"U+0526">>, <<"U+0528">>, <<"U+052A">>,
    <<"U+052C">>, <<"U+052E">>, <<"U+0531">>, <<"U+0532">>, <<"U+0533">>,
    <<"U+0534">>, <<"U+0535">>, <<"U+0536">>, <<"U+0537">>, <<"U+0538">>,
    <<"U+0539">>, <<"U+053A">>, <<"U+053B">>, <<"U+053C">>, <<"U+053D">>,
    <<"U+053E">>, <<"U+053F">>, <<"U+0540">>, <<"U+0541">>, <<"U+0542">>,
    <<"U+0543">>, <<"U+0544">>, <<"U+0545">>, <<"U+0546">>, <<"U+0547">>,
    <<"U+0548">>, <<"U+0549">>, <<"U+054A">>, <<"U+054B">>, <<"U+054C">>,
    <<"U+054D">>, <<"U+054E">>, <<"U+054F">>, <<"U+0550">>, <<"U+0551">>,
    <<"U+0552">>, <<"U+0553">>, <<"U+0554">>, <<"U+0555">>, <<"U+0556">>,
    <<"U+0535", "U+0552">>, <<"U+1C90">>, <<"U+1C91">>, <<"U+1C92">>,
    <<"U+1C93">>, <<"U+1C94">>, <<"U+1C95">>, <<"U+1C96">>, <<"U+1C97">>,
    <<"U+1C98">>, <<"U+1C99">>, <<"U+1C9A">>, <<"U+1C9B">>, <<"U+1C9C">>,
    <<"U+1C9D">>, <<"U+1C9E">>, <<"U+1C9F">>, <<"U+1CA0">>, <<"U+1CA1">>,
    <<"U+1CA2">>, <<"U+1CA3">>, <<"U+1CA4">>, <<"U+1CA5">>, <<"U+1CA6">>,
    <<"U+1CA7">>, <<"U+1CA8">>, <<"U+1CA9">>, <<"U+1CAA">>, <<"U+1CAB">>,
    <<"U+1CAC">>, <<"U+1CAD">>, <<"U+1CAE">>, <<"U+1CAF">>, <<"U+1CB0">>,
    <<"U+1CB1">>, <<"U+1CB2">>, <<"U+1CB3">>, <<"U+1CB4">>, <<"U+1CB5">>,
    <<"U+1CB6">>, <<"U+1CB7">>, <<"U+1CB8">>, <<"U+1CB9">>, <<"U+1CBA">>,
    <<"U+1CBD">>, <<"U+1CBE">>, <<"U+1CBF">>, <<"U+13F0">>, <<"U+13F1">>,
    <<"U+13F2">>, <<"U+13F3">>, <<"U+13F4">>, <<"U+13F5">>, <<"U+0412">>,
    <<"U+0414">>, <<"U+041E">>, <<"U+0421">>, <<"U+0422">>, <<"U+0422">>,
    <<"U+042A">>, <<"U+0462">>, <<"U+A64A">>, <<"U+A77D">>, <<"U+2C63">>,
    <<"U+A7C6">>, <<"U+1E00">>, <<"U+1E02">>, <<"U+1E04">>, <<"U+1E06">>,
    <<"U+1E08">>, <<"U+1E0A">>, <<"U+1E0C">>, <<"U+1E0E">>, <<"U+1E10">>,
    <<"U+1E12">>, <<"U+1E14">>, <<"U+1E16">>, <<"U+1E18">>, <<"U+1E1A">>,
    <<"U+1E1C">>, <<"U+1E1E">>, <<"U+1E20">>, <<"U+1E22">>, <<"U+1E24">>,
    <<"U+1E26">>, <<"U+1E28">>, <<"U+1E2A">>, <<"U+1E2C">>, <<"U+1E2E">>,
    <<"U+1E30">>, <<"U+1E32">>, <<"U+1E34">>, <<"U+1E36">>, <<"U+1E38">>,
    <<"U+1E3A">>, <<"U+1E3C">>, <<"U+1E3E">>, <<"U+1E40">>, <<"U+1E42">>,
    <<"U+1E44">>, <<"U+1E46">>, <<"U+1E48">>, <<"U+1E4A">>, <<"U+1E4C">>,
    <<"U+1E4E">>, <<"U+1E50">>, <<"U+1E52">>, <<"U+1E54">>, <<"U+1E56">>,
    <<"U+1E58">>, <<"U+1E5A">>, <<"U+1E5C">>, <<"U+1E5E">>, <<"U+1E60">>,
    <<"U+1E62">>, <<"U+1E64">>, <<"U+1E66">>, <<"U+1E68">>, <<"U+1E6A">>,
    <<"U+1E6C">>, <<"U+1E6E">>, <<"U+1E70">>, <<"U+1E72">>, <<"U+1E74">>,
    <<"U+1E76">>, <<"U+1E78">>, <<"U+1E7A">>, <<"U+1E7C">>, <<"U+1E7E">>,
    <<"U+1E80">>, <<"U+1E82">>, <<"U+1E84">>, <<"U+1E86">>, <<"U+1E88">>,
    <<"U+1E8A">>, <<"U+1E8C">>, <<"U+1E8E">>, <<"U+1E90">>, <<"U+1E92">>,
    <<"U+1E94">>, <<"H", "U+0331">>, <<"T", "U+0308">>, <<"W", "U+030A">>,
    <<"Y", "U+030A">>, <<"A", "U+02BE">>, <<"U+1E60">>, <<"U+1EA0">>,
    <<"U+1EA2">>, <<"U+1EA4">>, <<"U+1EA6">>, <<"U+1EA8">>, <<"U+1EAA">>,
    <<"U+1EAC">>, <<"U+1EAE">>, <<"U+1EB0">>, <<"U+1EB2">>, <<"U+1EB4">>,
    <<"U+1EB6">>, <<"U+1EB8">>, <<"U+1EBA">>, <<"U+1EBC">>, <<"U+1EBE">>,
    <<"U+1EC0">>, <<"U+1EC2">>, <<"U+1EC4">>, <<"U+1EC6">>, <<"U+1EC8">>,
    <<"U+1ECA">>, <<"U+1ECC">>, <<"U+1ECE">>, <<"U+1ED0">>, <<"U+1ED2">>,
    <<"U+1ED4">>, <<"U+1ED6">>, <<"U+1ED8">>, <<"U+1EDA">>, <<"U+1EDC">>,
    <<"U+1EDE">>, <<"U+1EE0">>, <<"U+1EE2">>, <<"U+1EE4">>, <<"U+1EE6">>,
    <<"U+1EE8">>, <<"U+1EEA">>, <<"U+1EEC">>, <<"U+1EEE">>, <<"U+1EF0">>,
    <<"U+1EF2">>, <<"U+1EF4">>, <<"U+1EF6">>, <<"U+1EF8">>, <<"U+1EFA">>,
    <<"U+1EFC">>, <<"U+1EFE">>, <<"U+1F08">>, <<"U+1F09">>, <<"U+1F0A">>,
    <<"U+1F0B">>, <<"U+1F0C">>, <<"U+1F0D">>, <<"U+1F0E">>, <<"U+1F0F">>,
    <<"U+1F18">>, <<"U+1F19">>, <<"U+1F1A">>, <<"U+1F1B">>, <<"U+1F1C">>,
    <<"U+1F1D">>, <<"U+1F28">>, <<"U+1F29">>, <<"U+1F2A">>, <<"U+1F2B">>,
    <<"U+1F2C">>, <<"U+1F2D">>, <<"U+1F2E">>, <<"U+1F2F">>, <<"U+1F38">>,
    <<"U+1F39">>, <<"U+1F3A">>, <<"U+1F3B">>, <<"U+1F3C">>, <<"U+1F3D">>,
    <<"U+1F3E">>, <<"U+1F3F">>, <<"U+1F48">>, <<"U+1F49">>, <<"U+1F4A">>,
    <<"U+1F4B">>, <<"U+1F4C">>, <<"U+1F4D">>, <<"U+03A5", "U+0313">>,
    <<"U+1F59">>, <<"U+03A5", "U+0313", "U+0300">>, <<"U+1F5B">>,
    <<"U+03A5", "U+0313", "U+0301">>, <<"U+1F5D">>,
    <<"U+03A5", "U+0313", "U+0342">>, <<"U+1F5F">>, <<"U+1F68">>,
    <<"U+1F69">>, <<"U+1F6A">>, <<"U+1F6B">>, <<"U+1F6C">>, <<"U+1F6D">>,
    <<"U+1F6E">>, <<"U+1F6F">>, <<"U+1FBA">>, <<"U+1FBB">>, <<"U+1FC8">>,
    <<"U+1FC9">>, <<"U+1FCA">>, <<"U+1FCB">>, <<"U+1FDA">>, <<"U+1FDB">>,
    <<"U+1FF8">>, <<"U+1FF9">>, <<"U+1FEA">>, <<"U+1FEB">>, <<"U+1FFA">>,
    <<"U+1FFB">>, <<"U+1F08", "U+0399">>, <<"U+1F09", "U+0399">>,
    <<"U+1F0A", "U+0399">>, <<"U+1F0B", "U+0399">>, <<"U+1F0C", "U+0399">>,
    <<"U+1F0D", "U+0399">>, <<"U+1F0E", "U+0399">>, <<"U+1F0F", "U+0399">>,
    <<"U+1F08", "U+0399">>, <<"U+1F09", "U+0399">>, <<"U+1F0A", "U+0399">>,
    <<"U+1F0B", "U+0399">>, <<"U+1F0C", "U+0399">>, <<"U+1F0D", "U+0399">>,
    <<"U+1F0E", "U+0399">>, <<"U+1F0F", "U+0399">>, <<"U+1F28", "U+0399">>,
    <<"U+1F29", "U+0399">>, <<"U+1F2A", "U+0399">>, <<"U+1F2B", "U+0399">>,
    <<"U+1F2C", "U+0399">>, <<"U+1F2D", "U+0399">>, <<"U+1F2E", "U+0399">>,
    <<"U+1F2F", "U+0399">>, <<"U+1F28", "U+0399">>, <<"U+1F29", "U+0399">>,
    <<"U+1F2A", "U+0399">>, <<"U+1F2B", "U+0399">>, <<"U+1F2C", "U+0399">>,
    <<"U+1F2D", "U+0399">>, <<"U+1F2E", "U+0399">>, <<"U+1F2F", "U+0399">>,
    <<"U+1F68", "U+0399">>, <<"U+1F69", "U+0399">>, <<"U+1F6A", "U+0399">>,
    <<"U+1F6B", "U+0399">>, <<"U+1F6C", "U+0399">>, <<"U+1F6D", "U+0399">>,
    <<"U+1F6E", "U+0399">>, <<"U+1F6F", "U+0399">>, <<"U+1F68", "U+0399">>,
    <<"U+1F69", "U+0399">>, <<"U+1F6A", "U+0399">>, <<"U+1F6B", "U+0399">>,
    <<"U+1F6C", "U+0399">>, <<"U+1F6D", "U+0399">>, <<"U+1F6E", "U+0399">>,
    <<"U+1F6F", "U+0399">>, <<"U+1FB8">>, <<"U+1FB9">>,
    <<"U+1FBA", "U+0399">>, <<"U+0391", "U+0399">>, <<"U+0386", "U+0399">>,
    <<"U+0391", "U+0342">>, <<"U+0391", "U+0342", "U+0399">>,
    <<"U+0391", "U+0399">>, <<"U+0399">>, <<"U+1FCA", "U+0399">>,
    <<"U+0397", "U+0399">>, <<"U+0389", "U+0399">>, <<"U+0397", "U+0342">>,
    <<"U+0397", "U+0342", "U+0399">>, <<"U+0397", "U+0399">>, <<"U+1FD8">>,
    <<"U+1FD9">>, <<"U+0399", "U+0308", "U+0300">>,
    <<"U+0399", "U+0308", "U+0301">>, <<"U+0399", "U+0342">>,
    <<"U+0399", "U+0308", "U+0342">>, <<"U+1FE8">>, <<"U+1FE9">>,
    <<"U+03A5", "U+0308", "U+0300">>, <<"U+03A5", "U+0308", "U+0301">>,
    <<"U+03A1", "U+0313">>, <<"U+1FEC">>, <<"U+03A5", "U+0342">>,
    <<"U+03A5", "U+0308", "U+0342">>, <<"U+1FFA", "U+0399">>,
    <<"U+03A9", "U+0399">>, <<"U+038F", "U+0399">>, <<"U+03A9", "U+0342">>,
    <<"U+03A9", "U+0342", "U+0399">>, <<"U+03A9", "U+0399">>, <<"U+2132">>,
    <<"U+2160">>, <<"U+2161">>, <<"U+2162">>, <<"U+2163">>, <<"U+2164">>,
    <<"U+2165">>, <<"U+2166">>, <<"U+2167">>, <<"U+2168">>, <<"U+2169">>,
    <<"U+216A">>, <<"U+216B">>, <<"U+216C">>, <<"U+216D">>, <<"U+216E">>,
    <<"U+216F">>, <<"U+2183">>, <<"U+24B6">>, <<"U+24B7">>, <<"U+24B8">>,
    <<"U+24B9">>, <<"U+24BA">>, <<"U+24BB">>, <<"U+24BC">>, <<"U+24BD">>,
    <<"U+24BE">>, <<"U+24BF">>, <<"U+24C0">>, <<"U+24C1">>, <<"U+24C2">>,
    <<"U+24C3">>, <<"U+24C4">>, <<"U+24C5">>, <<"U+24C6">>, <<"U+24C7">>,
    <<"U+24C8">>, <<"U+24C9">>, <<"U+24CA">>, <<"U+24CB">>, <<"U+24CC">>,
    <<"U+24CD">>, <<"U+24CE">>, <<"U+24CF">>, <<"U+2C00">>, <<"U+2C01">>,
    <<"U+2C02">>, <<"U+2C03">>, <<"U+2C04">>, <<"U+2C05">>, <<"U+2C06">>,
    <<"U+2C07">>, <<"U+2C08">>, <<"U+2C09">>, <<"U+2C0A">>, <<"U+2C0B">>,
    <<"U+2C0C">>, <<"U+2C0D">>, <<"U+2C0E">>, <<"U+2C0F">>, <<"U+2C10">>,
    <<"U+2C11">>, <<"U+2C12">>, <<"U+2C13">>, <<"U+2C14">>, <<"U+2C15">>,
    <<"U+2C16">>, <<"U+2C17">>, <<"U+2C18">>, <<"U+2C19">>, <<"U+2C1A">>,
    <<"U+2C1B">>, <<"U+2C1C">>, <<"U+2C1D">>, <<"U+2C1E">>, <<"U+2C1F">>,
    <<"U+2C20">>, <<"U+2C21">>, <<"U+2C22">>, <<"U+2C23">>, <<"U+2C24">>,
    <<"U+2C25">>, <<"U+2C26">>, <<"U+2C27">>, <<"U+2C28">>, <<"U+2C29">>,
    <<"U+2C2A">>, <<"U+2C2B">>, <<"U+2C2C">>, <<"U+2C2D">>, <<"U+2C2E">>,
    <<"U+2C2F">>, <<"U+2C60">>, <<"U+023A">>, <<"U+023E">>, <<"U+2C67">>,
    <<"U+2C69">>, <<"U+2C6B">>, <<"U+2C72">>, <<"U+2C75">>, <<"U+2C80">>,
    <<"U+2C82">>, <<"U+2C84">>, <<"U+2C86">>, <<"U+2C88">>, <<"U+2C8A">>,
    <<"U+2C8C">>, <<"U+2C8E">>, <<"U+2C90">>, <<"U+2C92">>, <<"U+2C94">>,
    <<"U+2C96">>, <<"U+2C98">>, <<"U+2C9A">>, <<"U+2C9C">>, <<"U+2C9E">>,
    <<"U+2CA0">>, <<"U+2CA2">>, <<"U+2CA4">>, <<"U+2CA6">>, <<"U+2CA8">>,
    <<"U+2CAA">>, <<"U+2CAC">>, <<"U+2CAE">>, <<"U+2CB0">>, <<"U+2CB2">>,
    <<"U+2CB4">>, <<"U+2CB6">>, <<"U+2CB8">>, <<"U+2CBA">>, <<"U+2CBC">>,
    <<"U+2CBE">>, <<"U+2CC0">>, <<"U+2CC2">>, <<"U+2CC4">>, <<"U+2CC6">>,
    <<"U+2CC8">>, <<"U+2CCA">>, <<"U+2CCC">>, <<"U+2CCE">>, <<"U+2CD0">>,
    <<"U+2CD2">>, <<"U+2CD4">>, <<"U+2CD6">>, <<"U+2CD8">>, <<"U+2CDA">>,
    <<"U+2CDC">>, <<"U+2CDE">>, <<"U+2CE0">>, <<"U+2CE2">>, <<"U+2CEB">>,
    <<"U+2CED">>, <<"U+2CF2">>, <<"U+10A0">>, <<"U+10A1">>, <<"U+10A2">>,
    <<"U+10A3">>, <<"U+10A4">>, <<"U+10A5">>, <<"U+10A6">>, <<"U+10A7">>,
    <<"U+10A8">>, <<"U+10A9">>, <<"U+10AA">>, <<"U+10AB">>, <<"U+10AC">>,
    <<"U+10AD">>, <<"U+10AE">>, <<"U+10AF">>, <<"U+10B0">>, <<"U+10B1">>,
    <<"U+10B2">>, <<"U+10B3">>, <<"U+10B4">>, <<"U+10B5">>, <<"U+10B6">>,
    <<"U+10B7">>, <<"U+10B8">>, <<"U+10B9">>, <<"U+10BA">>, <<"U+10BB">>,
    <<"U+10BC">>, <<"U+10BD">>, <<"U+10BE">>, <<"U+10BF">>, <<"U+10C0">>,
    <<"U+10C1">>, <<"U+10C2">>, <<"U+10C3">>, <<"U+10C4">>, <<"U+10C5">>,
    <<"U+10C7">>, <<"U+10CD">>, <<"U+A640">>, <<"U+A642">>, <<"U+A644">>,
    <<"U+A646">>, <<"U+A648">>, <<"U+A64A">>, <<"U+A64C">>, <<"U+A64E">>,
    <<"U+A650">>, <<"U+A652">>, <<"U+A654">>, <<"U+A656">>, <<"U+A658">>,
    <<"U+A65A">>, <<"U+A65C">>, <<"U+A65E">>, <<"U+A660">>, <<"U+A662">>,
    <<"U+A664">>, <<"U+A666">>, <<"U+A668">>, <<"U+A66A">>, <<"U+A66C">>,
    <<"U+A680">>, <<"U+A682">>, <<"U+A684">>, <<"U+A686">>, <<"U+A688">>,
    <<"U+A68A">>, <<"U+A68C">>, <<"U+A68E">>, <<"U+A690">>, <<"U+A692">>,
    <<"U+A694">>, <<"U+A696">>, <<"U+A698">>, <<"U+A69A">>, <<"U+A722">>,
    <<"U+A724">>, <<"U+A726">>, <<"U+A728">>, <<"U+A72A">>, <<"U+A72C">>,
    <<"U+A72E">>, <<"U+A732">>, <<"U+A734">>, <<"U+A736">>, <<"U+A738">>,
    <<"U+A73A">>, <<"U+A73C">>, <<"U+A73E">>, <<"U+A740">>, <<"U+A742">>,
    <<"U+A744">>, <<"U+A746">>, <<"U+A748">>, <<"U+A74A">>, <<"U+A74C">>,
    <<"U+A74E">>, <<"U+A750">>, <<"U+A752">>, <<"U+A754">>, <<"U+A756">>,
    <<"U+A758">>, <<"U+A75A">>, <<"U+A75C">>, <<"U+A75E">>, <<"U+A760">>,
    <<"U+A762">>, <<"U+A764">>, <<"U+A766">>, <<"U+A768">>, <<"U+A76A">>,
    <<"U+A76C">>, <<"U+A76E">>, <<"U+A779">>, <<"U+A77B">>, <<"U+A77E">>,
    <<"U+A780">>, <<"U+A782">>, <<"U+A784">>, <<"U+A786">>, <<"U+A78B">>,
    <<"U+A790">>, <<"U+A792">>, <<"U+A7C4">>, <<"U+A796">>, <<"U+A798">>,
    <<"U+A79A">>, <<"U+A79C">>, <<"U+A79E">>, <<"U+A7A0">>, <<"U+A7A2">>,
    <<"U+A7A4">>, <<"U+A7A6">>, <<"U+A7A8">>, <<"U+A7B4">>, <<"U+A7B6">>,
    <<"U+A7B8">>, <<"U+A7BA">>, <<"U+A7BC">>, <<"U+A7BE">>, <<"U+A7C0">>,
    <<"U+A7C2">>, <<"U+A7C7">>, <<"U+A7C9">>, <<"U+A7D0">>, <<"U+A7D6">>,
    <<"U+A7D8">>, <<"U+A7F5">>, <<"U+A7B3">>, <<"U+13A0">>, <<"U+13A1">>,
    <<"U+13A2">>, <<"U+13A3">>, <<"U+13A4">>, <<"U+13A5">>, <<"U+13A6">>,
    <<"U+13A7">>, <<"U+13A8">>, <<"U+13A9">>, <<"U+13AA">>, <<"U+13AB">>,
    <<"U+13AC">>, <<"U+13AD">>, <<"U+13AE">>, <<"U+13AF">>, <<"U+13B0">>,
    <<"U+13B1">>, <<"U+13B2">>, <<"U+13B3">>, <<"U+13B4">>, <<"U+13B5">>,
    <<"U+13B6">>, <<"U+13B7">>, <<"U+13B8">>, <<"U+13B9">>, <<"U+13BA">>,
    <<"U+13BB">>, <<"U+13BC">>, <<"U+13BD">>, <<"U+13BE">>, <<"U+13BF">>,
    <<"U+13C0">>, <<"U+13C1">>, <<"U+13C2">>, <<"U+13C3">>, <<"U+13C4">>,
    <<"U+13C5">>, <<"U+13C6">>, <<"U+13C7">>, <<"U+13C8">>, <<"U+13C9">>,
    <<"U+13CA">>, <<"U+13CB">>, <<"U+13CC">>, <<"U+13CD">>, <<"U+13CE">>,
    <<"U+13CF">>, <<"U+13D0">>, <<"U+13D1">>, <<"U+13D2">>, <<"U+13D3">>,
    <<"U+13D4">>, <<"U+13D5">>, <<"U+13D6">>, <<"U+13D7">>, <<"U+13D8">>,
    <<"U+13D9">>, <<"U+13DA">>, <<"U+13DB">>, <<"U+13DC">>, <<"U+13DD">>,
    <<"U+13DE">>, <<"U+13DF">>, <<"U+13E0">>, <<"U+13E1">>, <<"U+13E2">>,
    <<"U+13E3">>, <<"U+13E4">>, <<"U+13E5">>, <<"U+13E6">>, <<"U+13E7">>,
    <<"U+13E8">>, <<"U+13E9">>, <<"U+13EA">>, <<"U+13EB">>, <<"U+13EC">>,
    <<"U+13ED">>, <<"U+13EE">>, <<"U+13EF">>, <<"F", "F">>, <<"F", "I">>,
    <<"F", "L">>, <<"F", "F", "I">>, <<"F", "F", "L">>, <<"S", "T">>,
    <<"S", "T">>, <<"U+0544", "U+0546">>, <<"U+0544", "U+0535">>,
    <<"U+0544", "U+053B">>, <<"U+054E", "U+0546">>, <<"U+0544", "U+053D">>,
    <<"U+FF21">>, <<"U+FF22">>, <<"U+FF23">>, <<"U+FF24">>, <<"U+FF25">>,
    <<"U+FF26">>, <<"U+FF27">>, <<"U+FF28">>, <<"U+FF29">>, <<"U+FF2A">>,
    <<"U+FF2B">>, <<"U+FF2C">>, <<"U+FF2D">>, <<"U+FF2E">>, <<"U+FF2F">>,
    <<"U+FF30">>, <<"U+FF31">>, <<"U+FF32">>, <<"U+FF33">>, <<"U+FF34">>,
    <<"U+FF35">>, <<"U+FF36">>, <<"U+FF37">>, <<"U+FF38">>, <<"U+FF39">>,
    <<"U+FF3A">>, <<"U+10400">>, <<"U+10401">>, <<"U+10402">>, <<"U+10403">>,
    <<"U+10404">>, <<"U+10405">>, <<"U+10406">>, <<"U+10407">>, <<"U+10408">>,
    <<"U+10409">>, <<"U+1040A">>, <<"U+1040B">>, <<"U+1040C">>, <<"U+1040D">>,
    <<"U+1040E">>, <<"U+1040F">>, <<"U+10410">>, <<"U+10411">>, <<"U+10412">>,
    <<"U+10413">>, <<"U+10414">>, <<"U+10415">>, <<"U+10416">>, <<"U+10417">>,
    <<"U+10418">>, <<"U+10419">>, <<"U+1041A">>, <<"U+1041B">>, <<"U+1041C">>,
    <<"U+1041D">>, <<"U+1041E">>, <<"U+1041F">>, <<"U+10420">>, <<"U+10421">>,
    <<"U+10422">>, <<"U+10423">>, <<"U+10424">>, <<"U+10425">>, <<"U+10426">>,
    <<"U+10427">>, <<"U+104B0">>, <<"U+104B1">>, <<"U+104B2">>, <<"U+104B3">>,
    <<"U+104B4">>, <<"U+104B5">>, <<"U+104B6">>, <<"U+104B7">>, <<"U+104B8">>,
    <<"U+104B9">>, <<"U+104BA">>, <<"U+104BB">>, <<"U+104BC">>, <<"U+104BD">>,
    <<"U+104BE">>, <<"U+104BF">>, <<"U+104C0">>, <<"U+104C1">>, <<"U+104C2">>,
    <<"U+104C3">>, <<"U+104C4">>, <<"U+104C5">>, <<"U+104C6">>, <<"U+104C7">>,
    <<"U+104C8">>, <<"U+104C9">>, <<"U+104CA">>, <<"U+104CB">>, <<"U+104CC">>,
    <<"U+104CD">>, <<"U+104CE">>, <<"U+104CF">>, <<"U+104D0">>, <<"U+104D1">>,
    <<"U+104D2">>, <<"U+104D3">>, <<"U+10570">>, <<"U+10571">>, <<"U+10572">>,
    <<"U+10573">>, <<"U+10574">>, <<"U+10575">>, <<"U+10576">>, <<"U+10577">>,
    <<"U+10578">>, <<"U+10579">>, <<"U+1057A">>, <<"U+1057C">>, <<"U+1057D">>,
    <<"U+1057E">>, <<"U+1057F">>, <<"U+10580">>, <<"U+10581">>, <<"U+10582">>,
    <<"U+10583">>, <<"U+10584">>, <<"U+10585">>, <<"U+10586">>, <<"U+10587">>,
    <<"U+10588">>, <<"U+10589">>, <<"U+1058A">>, <<"U+1058C">>, <<"U+1058D">>,
    <<"U+1058E">>, <<"U+1058F">>, <<"U+10590">>, <<"U+10591">>, <<"U+10592">>,
    <<"U+10594">>, <<"U+10595">>, <<"U+10C80">>, <<"U+10C81">>, <<"U+10C82">>,
    <<"U+10C83">>, <<"U+10C84">>, <<"U+10C85">>, <<"U+10C86">>, <<"U+10C87">>,
    <<"U+10C88">>, <<"U+10C89">>, <<"U+10C8A">>, <<"U+10C8B">>, <<"U+10C8C">>,
    <<"U+10C8D">>, <<"U+10C8E">>, <<"U+10C8F">>, <<"U+10C90">>, <<"U+10C91">>,
    <<"U+10C92">>, <<"U+10C93">>, <<"U+10C94">>, <<"U+10C95">>, <<"U+10C96">>,
    <<"U+10C97">>, <<"U+10C98">>, <<"U+10C99">>, <<"U+10C9A">>, <<"U+10C9B">>,
    <<"U+10C9C">>, <<"U+10C9D">>, <<"U+10C9E">>, <<"U+10C9F">>, <<"U+10CA0">>,
    <<"U+10CA1">>, <<"U+10CA2">>, <<"U+10CA3">>, <<"U+10CA4">>, <<"U+10CA5">>,
    <<"U+10CA6">>, <<"U+10CA7">>, <<"U+10CA8">>, <<"U+10CA9">>, <<"U+10CAA">>,
    <<"U+10CAB">>, <<"U+10CAC">>, <<"U+10CAD">>, <<"U+10CAE">>, <<"U+10CAF">>,
    <<"U+10CB0">>, <<"U+10CB1">>, <<"U+10CB2">>, <<"U+118A0">>, <<"U+118A1">>,
    <<"U+118A2">>, <<"U+118A3">>, <<"U+118A4">>, <<"U+118A5">>, <<"U+118A6">>,
    <<"U+118A7">>, <<"U+118A8">>, <<"U+118A9">>, <<"U+118AA">>, <<"U+118AB">>,
    <<"U+118AC">>, <<"U+118AD">>, <<"U+118AE">>, <<"U+118AF">>, <<"U+118B0">>,
    <<"U+118B1">>, <<"U+118B2">>, <<"U+118B3">>, <<"U+118B4">>, <<"U+118B5">>,
    <<"U+118B6">>, <<"U+118B7">>, <<"U+118B8">>, <<"U+118B9">>, <<"U+118BA">>,
    <<"U+118BB">>, <<"U+118BC">>, <<"U+118BD">>, <<"U+118BE">>, <<"U+118BF">>,
    <<"U+16E40">>, <<"U+16E41">>, <<"U+16E42">>, <<"U+16E43">>, <<"U+16E44">>,
    <<"U+16E45">>, <<"U+16E46">>, <<"U+16E47">>, <<"U+16E48">>, <<"U+16E49">>,
    <<"U+16E4A">>, <<"U+16E4B">>, <<"U+16E4C">>, <<"U+16E4D">>, <<"U+16E4E">>,
    <<"U+16E4F">>, <<"U+16E50">>, <<"U+16E51">>, <<"U+16E52">>, <<"U+16E53">>,
    <<"U+16E54">>, <<"U+16E55">>, <<"U+16E56">>, <<"U+16E57">>, <<"U+16E58">>,
    <<"U+16E59">>, <<"U+16E5A">>, <<"U+16E5B">>, <<"U+16E5C">>, <<"U+16E5D">>,
    <<"U+16E5E">>, <<"U+16E5F">>, <<"U+1E900">>, <<"U+1E901">>, <<"U+1E902">>,
    <<"U+1E903">>, <<"U+1E904">>, <<"U+1E905">>, <<"U+1E906">>, <<"U+1E907">>,
    <<"U+1E908">>, <<"U+1E909">>, <<"U+1E90A">>, <<"U+1E90B">>, <<"U+1E90C">>,
    <<"U+1E90D">>, <<"U+1E90E">>, <<"U+1E90F">>, <<"U+1E910">>, <<"U+1E911">>,
    <<"U+1E912">>, <<"U+1E913">>, <<"U+1E914">>, <<"U+1E915">>, <<"U+1E916">>,
    <<"U+1E917">>, <<"U+1E918">>, <<"U+1E919">>, <<"U+1E91A">>, <<"U+1E91B">>,
    <<"U+1E91C">>, <<"U+1E91D">>, <<"U+1E91E">>, <<"U+1E91F">>, <<"U+1E920">>,
    <<"U+1E921">>>>

\* the lower-casing re.IGNORECASE applies to one character: the characters it
\* changes ...
LowerFrom == <<
    "A", "B", "C", "D", "E", "F", "G", "H", "I", "J", "K", "L", "M", "N", "O",
    "P", "Q", "R", "S", "T", "U", "V", "W", "X", "Y", "Z", "U+00C0", "U+00C1",
    "U+00C2", "U+00C3", "U+00C4", "U+00C5", "U+00C6", "U+00C7", "U+00C8",
    "U+00C9", "U+00CA", "U+00CB", "U+00CC", "U+00CD", "U+00CE", "U+00CF",
    "U+00D0", "U+00D1", "U+00D2", "U+00D3", "U+00D4", "U+00D5", "U+00D6",
    "U+00D8", "U+00D9", "U+00DA", "U+00DB", "U+00DC", "U+00DD", "U+00DE",
    "U+0100", "U+0102", "U+0104", "U+0106", "U+0108", "U+010A", "U+010C",
    "U+010E", "U+0110", "U+0112", "U+0114", "U+0116", "U+0118", "U+011A",
    "U+011C", "U+011E", "U+0120", "U+0122", "U+0124", "U+0126", "U+0128",
    "U+012A", "U+012C", "U+012E", "U+0130", "U+0132", "U+0134", "U+0136",
    "U+0139", "U+013B", "U+013D", "U+013F", "U+0141", "U+0143", "U+0145",
    "U+0147", "U+014A", "U+014C", "U+014E", "U+0150", "U+0152", "U+0154",
    "U+0156", "U+0158", "U+015A", "U+015C", "U+015E", "U+0160", "U+0162",
    "U+0164", "U+0166", "U+0168", "U+016A", "U+016C", "U+016E", "U+0170",
    "U+0172", "U+0174", "U+0176", "U+0178", "U+0179", "U+017B", "U+017D",
    "U+0181", "U+0182", "U+0184", "U+0186", "U+0187", "U+0189", "U+018A",
    "U+018B", "U+018E", "U+018F", "U+0190", "U+0191", "U+0193", "U+0194",
    "U+0196", "U+0197", "U+0198", "U+019C", "U+019D", "U+019F", "U+01A0",
    "U+01A2", "U+01A4", "U+01A6", "U+01A7", "U+01A9", "U+01AC", "U+01AE",
    "U+01AF", "U+01B1", "U+01B2", "U+01B3", "U+01B5", "U+01B7", "U+01B8",
    "U+01BC", "U+01C4", "U+01C5", "U+01C7", "U+01C8", "U+01CA", "U+01CB",
    "U+01CD", "U+01CF", "U+01D1", "U+01D3", "U+01D5", "U+01D7", "U+01D9",
    "U+01DB", "U+01DE", "U+01E0", "U+01E2", "U+01E4", "U+01E6", "U+01E8",
    "U+01EA", "U+01EC", "U+01EE", "U+01F1", "U+01F2", "U+01F4", "U+01F6",
    "U+01F7", "U+01F8", "U+01FA", "U+01FC", "U+01FE", "U+0200", "U+0202",
    "U+0204", "U+0206", "U+0208", "U+020A", "U+020C", "U+020E", "U+0210",
    "U+0212", "U+0214", "U+0216", "U+0218", "U+021A", "U+021C", "U+021E",
    "U+0220", "U+0222", "U+0224", "U+0226", "U+0228", "U+022A", "U+022C",
    "U+022E", "U+0230", "U+0232", "U+023A", "U+023B", "U+023D", "U+023E",
    "U+0241", "U+0243", "U+0244", "U+0245", "U+0246", "U+0248", "U+024A",
    "U+024C", "U+024E", "U+0370", "U+0372", "U+0376", "U+037F", "U+0386",
    "U+0388", "U+0389", "U+038A", "U+038C", "U+038E", "U+038F", "U+0391",
    "U+0392", "U+0393", "U+0394", "U+0395", "U+0396", "U+0397", "U+0398",
    "U+0399", "U+039A", "U+039B", "U+039C", "U+039D", "U+039E", "U+039F",
    "U+03A0", "U+03A1", "U+03A3", "U+03A4", "U+03A5", "U+03A6", "U+03A7",
    "U+03A8", "U+03A9", "U+03AA", "U+03AB", "U+03CF", "U+03D8", "U+03DA",
    "U+03DC", "U+03DE", "U+03E0", "U+03E2", "U+03E4", "U+03E6", "U+03E8",
    "U+03EA", "U+03EC", "U+03EE", "U+03F4", "U+03F7", "U+03F9", "U+03FA",
    "U+03FD", "U+03FE", "U+03FF", "U+0400", "U+0401", "U+0402", "U+0403",
    "U+0404", "U+0405", "U+0406", "U+0407", "U+0408", "U+0409", "U+040A",
    "U+040B", "U+040C", "U+040D", "U+040E", "U+040F", "U+0410", "U+0411",
    "U+0412", "U+0413", "U+0414", "U+0415", "U+0416", "U+0417", "U+0418",
    "U+0419", "U+041A", "U+041B", "U+041C", "U+041D", "U+041E", "U+041F",
    "U+0420", "U+0421", "U+0422", "U+0423", "U+0424", "U+0425", "U+0426",
    "U+0427", "U+0428", "U+0429", "U+042A", "U+042B", "U+042C", "U+042D",
    "U+042E", "U+042F", "U+0460", "U+0462", "U+0464", "U+0466", "U+0468",
    "U+046A", "U+046C", "U+046E", "U+0470", "U+0472", "U+0474", "U+0476",
    "U+0478", "U+047A", "U+047C", "U+047E", "U+0480", "U+048A", "U+048C",
    "U+048E", "U+0490", "U+0492", "U+0494", "U+0496", "U+0498", "U+049A",
    "U+049C", "U+049E", "U+04A0", "U+04A2", "U+04A4", "U+04A6", "U+04A8",
    "U+04AA", "U+04AC", "U+04AE", "U+04B0", "U+04B2", "U+04B4", "U+04B6",
    "U+04B8", "U+04BA", "U+04BC", "U+04BE", "U+04C0", "U+04C1", "U+04C3",
    "U+04C5", "U+04C7", "U+04C9", "U+04CB", "U+04CD", "U+04D0", "U+04D2",
    "U+04D4", "U+04D6", "U+04D8", "U+04DA", "U+04DC", "U+04DE", "U+04E0",
    "U+04E2", "U+04E4", "U+04E6", "U+04E8", "U+04EA", "U+04EC", "U+04EE",
    "U+04F0", "U+04F2", "U+04F4", "U+04F6", "U+04F8", "U+04FA", "U+04FC",
    "U+04FE", "U+0500", "U+0502", "U+0504", "U+0506", "U+0508", "U+050A",
    "U+050C", "U+050E", "U+0510", "U+0512", "U+0514", "U+0516", "U+0518",
    "U+051A", "U+051C", "U+051E", "U+0520", "U+0522", "U+0524", "U+0526",
    "U+0528", "U+052A", "U+052C", "U+052E", "U+0531", "U+0532", "U+0533",
    "U+0534", "U+0535", "U+0536", "U+0537", "U+0538", "U+0539", "U+053A",
    "U+053B", "U+053C", "U+053D", "U+053E", "U+053F", "U+0540", "U+0541",
    "U+0542", "U+0543", "U+0544", "U+0545", "U+0546", "U+0547", "U+0548",
    "U+0549", "U+054A", "U+054B", "U+054C", "U+054D", "U+054E", "U+054F",
    "U+0550", "U+0551", "U+0552", "U+0553", "U+0554", "U+0555", "U+0556",
    "U+10A0", "U+10A1", "U+10A2", "U+10A3", "U+10A4", "U+10A5", "U+10A6",
    "U+10A7", "U+10A8", "U+10A9", "U+10AA", "U+10AB", "U+10AC", "U+10AD",
    "U+10AE", "U+10AF", "U+10B0", "U+10B1", "U+10B2", "U+10B3", "U+10B4",
    "U+10B5", "U+10B6", "U+10B7", "U+10B8", "U+10B9", "U+10BA", "U+10BB",
    "U+10BC", "U+10BD", "U+10BE", "U+10BF", "U+10C0", "U+10C1", "U+10C2",
    "U+10C3", "U+10C4", "U+10C5", "U+10C7", "U+10CD", "U+13A0", "U+13A1",
    "U+13A2", "U+13A3", "U+13A4", "U+13A5", "U+13A6", "U+13A7", "U+13A8",
    "U+13A9", "U+13AA", "U+13AB", "U+13AC", "U+13AD", "U+13AE", "U+13AF",
    "U+13B0", "U+13B1", "U+13B2", "U+13B3", "U+13B4", "U+13B5", "U+13B6",
    "U+13B7", "U+13B8", "U+13B9", "U+13BA", "U+13BB", "U+13BC", "U+13BD",
    "U+13BE", "U+13BF", "U+13C0", "U+13C1", "U+13C2", "U+13C3", "U+13C4",
    "U+13C5", "U+13C6", "U+13C7", "U+13C8", "U+13C9", "U+13CA", "U+13CB",
    "U+13CC", "U+13CD", "U+13CE", "U+13CF", "U+13D0", "U+13D1", "U+13D2",
    "U+13D3", "U+13D4", "U+13D5", "U+13D6", "U+13D7", "U+13D8", "U+13D9",
    "U+13DA", "U+13DB", "U+13DC", "U+13DD", "U+13DE", "U+13DF", "U+13E0",
    "U+13E1", "U+13E2", "U+13E3", "U+13E4", "U+13E5", "U+13E6", "U+13E7",
    "U+13E8", "U+13E9", "U+13EA", "U+13EB", "U+13EC", "U+13ED", "U+13EE",
    "U+13EF", "U+13F0", "U+13F1", "U+13F2", "U+13F3", "U+13F4", "U+13F5",
    "U+1C90", "U+1C91", "U+1C92", "U+1C93", "U+1C94", "U+1C95", "U+1C96",
    "U+1C97", "U+1C98", "U+1C99", "U+1C9A", "U+1C9B", "U+1C9C", "U+1C9D",
    "U+1C9E", "U+1C9F", "U+1CA0", "U+1CA1", "U+1CA2", "U+1CA3", "U+1CA4",
    "U+1CA5", "U+1CA6", "U+1CA7", "U+1CA8", "U+1CA9", "U+1CAA", "U+1CAB",
    "U+1CAC", "U+1CAD", "U+1CAE", "U+1CAF", "U+1CB0", "U+1CB1", "U+1CB2",
    "U+1CB3", "U+1CB4", "U+1CB5", "U+1CB6", "U+1CB7", "U+1CB8", "U+1CB9",
    "U+1CBA", "U+1CBD", "U+1CBE", "U+1CBF", "U+1E00", "U+1E02", "U+1E04",
    "U+1E06", "U+1E08", "U+1E0A", "U+1E0C", "U+1E0E", "U+1E10", "U+1E12",
    "U+1E14", "U+1E16", "U+1E18", "U+1E1A", "U+1E1C", "U+1E1E", "U+1E20",
    "U+1E22", "U+1E24", "U+1E26", "U+1E28", "U+1E2A", "U+1E2C", "U+1E2E",
    "U+1E30", "U+1E32", "U+1E34", "U+1E36", "U+1E38", "U+1E3A", "U+1E3C",
    "U+1E3E", "U+1E40", "U+1E42", "U+1E44", "U+1E46", "U+1E48", "U+1E4A",
    "U+1E4C", "U+1E4E", "U+1E50", "U+1E52", "U+1E54", "U+1E56", "U+1E58",
    "U+1E5A", "U+1E5C", "U+1E5E", "U+1E60", "U+1E62", "U+1E64", "U+1E66",
    "U+1E68", "U+1E6A", "U+1E6C", "U+1E6E", "U+1E70", "U+1E72", "U+1E74",
    "U+1E76", "U+1E78", "U+1E7A", "U+1E7C", "U+1E7E", "U+1E80", "U+1E82",
    "U+1E84", "U+1E86", "U+1E88", "U+1E8A", "U+1E8C", "U+1E8E", "U+1E90",
    "U+1E92", "U+1E94", "U+1E9E", "U+1EA0", "U+1EA2", "U+1EA4", "U+1EA6",
    "U+1EA8", "U+1EAA", "U+1EAC", "U+1EAE", "U+1EB0", "U+1EB2", "U+1EB4",
    "U+1EB6", "U+1EB8", "U+1EBA", "U+1EBC", "U+1EBE", "U+1EC0", "U+1EC2",
    "U+1EC4", "U+1EC6", "U+1EC8", "U+1ECA", "U+1ECC", "U+1ECE", "U+1ED0",
    "U+1ED2", "U+1ED4", "U+1ED6", "U+1ED8", "U+1EDA", "U+1EDC", "U+1EDE",
    "U+1EE0", "U+1EE2", "U+1EE4", "U+1EE6", "U+1EE8", "U+1EEA", "U+1EEC",
    "U+1EEE", "U+1EF0", "U+1EF2", "U+1EF4", "U+1EF6", "U+1EF8", "U+1EFA",
    "U+1EFC", "U+1EFE", "U+1F08", "U+1F09", "U+1F0A", "U+1F0B", "U+1F0C",
    "U+1F0D", "U+1F0E", "U+1F0F", "U+1F18", "U+1F19", "U+1F1A", "U+1F1B",
    "U+1F1C", "U+1F1D", "U+1F28", "U+1F29", "U+1F2A", "U+1F2B", "U+1F2C",
    "U+1F2D", "U+1F2E", "U+1F2F", "U+1F38", "U+1F39", "U+1F3A", "U+1F3B",
    "U+1F3C", "U+1F3D", "U+1F3E", "U+1F3F", "U+1F48", "U+1F49", "U+1F4A",
    "U+1F4B", "U+1F4C", "U+1F4D", "U+1F59", "U+1F5B", "U+1F5D", "U+1F5F",
    "U+1F68", "U+1F69", "U+1F6A", "U+1F6B", "U+1F6C", "U+1F6D", "U+1F6E",
    "U+1F6F", "U+1F88", "U+1F89", "U+1F8A", "U+1F8B", "U+1F8C", "U+1F8D",
    "U+1F8E", "U+1F8F", "U+1F98", "U+1F99", "U+1F9A", "U+1F9B", "U+1F9C",
    "U+1F9D", "U+1F9E", "U+1F9F", "U+1FA8", "U+1FA9", "U+1FAA", "U+1FAB",
    "U+1FAC", "U+1FAD", "U+1FAE", "U+1FAF", "U+1FB8", "U+1FB9", "U+1FBA",
    "U+1FBB", "U+1FBC", "U+1FC8", "U+1FC9", "U+1FCA", "U+1FCB", "U+1FCC",
    "U+1FD8", "U+1FD9", "U+1FDA", "U+1FDB", "U+1FE8", "U+1FE9", "U+1FEA",
    "U+1FEB", "U+1FEC", "U+1FF8", "U+1FF9", "U+1FFA", "U+1FFB", "U+1FFC",
    "U+2126", "U+212A", "U+212B", "U+2132", "U+2160", "U+2161", "U+2162",
    "U+2163", "U+2164", "U+2165", "U+2166", "U+2167", "U+2168", "U+2169",
    "U+216A", "U+216B", "U+216C", "U+216D", "U+216E", "U+216F", "U+2183",
    "U+24B6", "U+24B7", "U+24B8", "U+24B9", "U+24BA", "U+24BB", "U+24BC",
    "U+24BD", "U+24BE", "U+24BF", "U+24C0", "U+24C1", "U+24C2", "U+24C3",
    "U+24C4", "U+24C5", "U+24C6", "U+24C7", "U+24C8", "U+24C9", "U+24CA",
    "U+24CB", "U+24CC", "U+24CD", "U+24CE", "U+24CF", "U+2C00", "U+2C01",
    "U+2C02", "U+2C03", "U+2C04", "U+2C05", "U+2C06", "U+2C07", "U+2C08",
    "U+2C09", "U+2C0A", "U+2C0B", "U+2C0C", "U+2C0D", "U+2C0E", "U+2C0F",
    "U+2C10", "U+2C11", "U+2C12", "U+2C13", "U+2C14", "U+2C15", "U+2C16",
    "U+2C17", "U+2C18", "U+2C19", "U+2C1A", "U+2C1B", "U+2C1C", "U+2C1D",
    "U+2C1E", "U+2C1F", "U+2C20", "U+2C21", "U+2C22", "U+2C23", "U+2C24",
    "U+2C25", "U+2C26", "U+2C27", "U+2C28", "U+2C29", "U+2C2A", "U+2C2B",
    "U+2C2C", "U+2C2D", "U+2C2E", "U+2C2F", "U+2C60", "U+2C62", "U+2C63",
    "U+2C64", "U+2C67", "U+2C69", "U+2C6B", "U+2C6D", "U+2C6E", "U+2C6F",
    "U+2C70", "U+2C72", "U+2C75", "U+2C7E", "U+2C7F", "U+2C80", "U+2C82",
    "U+2C84", "U+2C86", "U+2C88", "U+2C8A", "U+2C8C", "U+2C8E", "U+2C90",
    "U+2C92", "U+2C94", "U+2C96", "U+2C98", "U+2C9A", "U+2C9C", "U+2C9E",
    "U+2CA0", "U+2CA2", "U+2CA4", "U+2CA6", "U+2CA8", "U+2CAA", "U+2CAC",
    "U+2CAE", "U+2CB0", "U+2CB2", "U+2CB4", "U+2CB6", "U+2CB8", "U+2CBA",
    "U+2CBC", "U+2CBE", "U+2CC0", "U+2CC2", "U+2CC4", "U+2CC6", "U+2CC8",
    "U+2CCA", "U+2CCC", "U+2CCE", "U+2CD0", "U+2CD2", "U+2CD4", "U+2CD6",
    "U+2CD8", "U+2CDA", "U+2CDC", "U+2CDE", "U+2CE0", "U+2CE2", "U+2CEB",
    "U+2CED", "U+2CF2", "U+A640", "U+A642", "U+A644", "U+A646", "U+A648",
    "U+A64A", "U+A64C", "U+A64E", "U+A650", "U+A652", "U+A654", "U+A656",
    "U+A658", "U+A65A", "U+A65C", "U+A65E", "U+A660", "U+A662", "U+A664",
    "U+A666", "U+A668", "U+A66A", "U+A66C", "U+A680", "U+A682", "U+A684",
    "U+A686", "U+A688", "U+A68A", "U+A68C", "U+A68E", "U+A690", "U+A692",
    "U+A694", "U+A696", "U+A698", "U+A69A", "U+A722", "U+A724", "U+A726",
    "U+A728", "U+A72A", "U+A72C", "U+A72E", "U+A732", "U+A734", "U+A736",
    "U+A738", "U+A73A", "U+A73C", "U+A73E", "U+A740", "U+A742", "U+A744",
    "U+A746", "U+A748", "U+A74A", "U+A74C", "U+A74E", "U+A750", "U+A752",
    "U+A754", "U+A756", "U+A758", "U+A75A", "U+A75C", "U+A75E", "U+A760",
    "U+A762", "U+A764", "U+A766", "U+A768", "U+A76A", "U+A76C", "U+A76E",
    "U+A779", "U+A77B", "U+A77D", "U+A77E", "U+A780", "U+A782", "U+A784",
    "U+A786", "U+A78B", "U+A78D", "U+A790", "U+A792", "U+A796", "U+A798",
    "U+A79A", "U+A79C", "U+A79E", "U+A7A0", "U+A7A2", "U+A7A4", "U+A7A6",
    "U+A7A8", "U+A7AA", "U+A7AB", "U+A7AC", "U+A7AD", "U+A7AE", "U+A7B0",
    "U+A7B1", "U+A7B2", "U+A7B3", "U+A7B4", "U+A7B6", "U+A7B8", "U+A7BA",
    "U+A7BC", "U+A7BE", "U+A7C0", "U+A7C2", "U+A7C4", "U+A7C5", "U+A7C6",
    "U+A7C7", "U+A7C9", "U+A7D0", "U+A7D6", "U+A7D8", "U+A7F5", "U+FF21",
    "U+FF22", "U+FF23", "U+FF24", "U+FF25", "U+FF26", "U+FF27", "U+FF28",
    "U+FF29", "U+FF2A", "U+FF2B", "U+FF2C", "U+FF2D", "U+FF2E", "U+FF2F",
    "U+FF30", "U+FF31", "U+FF32", "U+FF33", "U+FF34", "U+FF35", "U+FF36",
    "U+FF37", "U+FF38", "U+FF39", "U+FF3A", "U+10400", "U+10401", "U+10402",
    "U+10403", "U+10404", "U+10405", "U+10406", "U+10407", "U+10408",
    "U+10409", "U+1040A", "U+1040B", "U+1040C", "U+1040D", "U+1040E",
    "U+1040F", "U+10410", "U+10411", "U+10412", "U+10413", "U+10414",
    "U+10415", "U+10416", "U+10417", "U+10418", "U+10419", "U+1041A",
    "U+1041B", "U+1041C", "U+1041D", "U+1041E", "U+1041F", "U+10420",
    "U+10421", "U+10422", "U+10423", "U+10424", "U+10425", "U+10426",
    "U+10427", "U+104B0", "U+104B1", "U+104B2", "U+104B3", "U+104B4",
    "U+104B5", "U+104B6", "U+104B7", "U+104B8", "U+104B9", "U+104BA",
    "U+104BB", "U+104BC", "U+104BD", "U+104BE", "U+104BF", "U+104C0",
    "U+104C1", "U+104C2", "U+104C3", "U+104C4", "U+104C5", "U+104C6",
    "U+104C7", "U+104C8", "U+104C9", "U+104CA", "U+104CB", "U+104CC",
    "U+104CD", "U+104CE", "U+104CF", "U+104D0", "U+104D1", "U+104D2",
    "U+104D3", "U+10570", "U+10571", "U+10572", "U+10573", "U+10574",
    "U+10575", "U+10576", "U+10577", "U+10578", "U+10579", "U+1057A",
    "U+1057C", "U+1057D", "U+1057E", "U+1057F", "U+10580", "U+10581",
    "U+10582", "U+10583", "U+10584", "U+10585", "U+10586", "U+10587",
    "U+10588", "U+10589", "U+1058A", "U+1058C", "U+1058D", "U+1058E",
    "U+1058F", "U+10590", "U+10591", "U+10592", "U+10594", "U+10595",
    "U+10C80", "U+10C81", "U+10C82", "U+10C83", "U+10C84", "U+10C85",
    "U+10C86", "U+10C87", "U+10C88", "U+10C89", "U+10C8A", "U+10C8B",
    "U+10C8C", "U+10C8D", "U+10C8E", "U+10C8F", "U+10C90", "U+10C91",
    "U+10C92", "U+10C93", "U+10C94", "U+10C95", "U+10C96", "U+10C97",
    "U+10C98", "U+10C99", "U+10C9A", "U+10C9B", "U+10C9C", "U+10C9D",
    "U+10C9E", "U+10C9F", "U+10CA0", "U+10CA1", "U+10CA2", "U+10CA3",
    "U+10CA4", "U+10CA5", "U+10CA6", "U+10CA7", "U+10CA8", "U+10CA9",
    "U+10CAA", "U+10CAB", "U+10CAC", "U+10CAD", "U+10CAE", "U+10CAF",
    "U+10CB0", "U+10CB1", "U+10CB2", "U+118A0", "U+118A1", "U+118A2",
    "U+118A3", "U+118A4", "U+118A5", "U+118A6", "U+118A7", "U+118A8",
    "U+118A9", "U+118AA", "U+118AB", "U+118AC", "U+118AD", "U+118AE",
    "U+118AF", "U+118B0", "U+118B1", "U+118B2", "U+118B3", "U+118B4",
    "U+118B5", "U+118B6", "U+118B7", "U+118B8", "U+118B9", "U+118BA",
    "U+118BB", "U+118BC", "U+118BD", "U+118BE", "U+118BF", "U+16E40",
    "U+16E41", "U+16E42", "U+16E43", "U+16E44", "U+16E45", "U+16E46",
    "U+16E47", "U+16E48", "U+16E49", "U+16E4A", "U+16E4B", "U+16E4C",
    "U+16E4D", "U+16E4E", "U+16E4F", "U+16E50", "U+16E51", "U+16E52",
    "U+16E53", "U+16E54", "U+16E55", "U+16E56", "U+16E57", "U+16E58",
    "U+16E59", "U+16E5A", "U+16E5B", "U+16E5C", "U+16E5D", "U+16E5E",
    "U+16E5F", "U+1E900", "U+1E901", "U+1E902", "U+1E903", "U+1E904",
    "U+1E905", "U+1E906", "U+1E907", "U+1E908", "U+1E909", "U+1E90A",
    "U+1E90B", "U+1E90C", "U+1E90D", "U+1E90E", "U+1E90F", "U+1E910",
    "U+1E911", "U+1E912", "U+1E913", "U+1E914", "U+1E915", "U+1E916",
    "U+1E917", "U+1E918", "U+1E919", "U+1E91A", "U+1E91B", "U+1E91C",
    "U+1E91D", "U+1E91E", "U+1E91F", "U+1E920", "U+1E921">>

\* ... and what each of them becomes
LowerTo == <<
    "a", "b", "c", "d", "e", "f", "g", "h", "i", "j", "k", "l", "m", "n", "o",
    "p", "q", "r", "s", "t", "u", "v", "w", "x", "y", "z", "U+00E0", "U+00E1",
    "U+00E2", "U+00E3", "U+00E4", "U+00E5", "U+00E6", "U+00E7", "U+00E8",
    "U+00E9", "U+00EA", "U+00EB", "U+00EC", "U+00ED", "U+00EE", "U+00EF",
    "U+00F0", "U+00F1", "U+00F2", "U+00F3", "U+00F4", "U+00F5", "U+00F6",
    "U+00F8", "U+00F9", "U+00FA", "U+00FB", "U+00FC", "U+00FD", "U+00FE",
    "U+0101", "U+0103", "U+0105", "U+0107", "U+0109", "U+010B", "U+010D",
    "U+010F", "U+0111", "U+0113", "U+0115", "U+0117", "U+0119", "U+011B",
    "U+011D", "U+011F", "U+0121", "U+0123", "U+0125", "U+0127", "U+0129",
    "U+012B", "U+012D", "U+012F", "i", "U+0133", "U+0135", "U+0137", "U+013A",
    "U+013C", "U+013E", "U+0140", "U+0142", "U+0144", "U+0146", "U+0148",
    "U+014B", "U+014D", "U+014F", "U+0151", "U+0153", "U+0155", "U+0157",
    "U+0159", "U+015B", "U+015D", "U+015F", "U+0161", "U+0163", "U+0165",
    "U+0167", "U+0169", "U+016B", "U+016D", "U+016F", "U+0171", "U+0173",
    "U+0175", "U+0177", "U+00FF", "U+017A", "U+017C", "U+017E", "U+0253",
    "U+0183", "U+0185", "U+0254", "U+0188", "U+0256", "U+0257", "U+018C",
    "U+01DD", "U+0259", "U+025B", "U+0192", "U+0260", "U+0263", "U+0269",
    "U+0268", "U+0199", "U+026F", "U+0272", "U+0275", "U+01A1", "U+01A3",
    "U+01A5", "U+0280", "U+01A8", "U+0283", "U+01AD", "U+0288", "U+01B0",
    "U+028A", "U+028B", "U+01B4", "U+01B6", "U+0292", "U+01B9", "U+01BD",
    "U+01C6", "U+01C6", "U+01C9", "U+01C9", "U+01CC", "U+01CC", "U+01CE",
    "U+01D0", "U+01D2", "U+01D4", "U+01D6", "U+01D8", "U+01DA", "U+01DC",
    "U+01DF", "U+01E1", "U+01E3", "U+01E5", "U+01E7", "U+01E9", "U+01EB",
    "U+01ED", "U+01EF", "U+01F3", "U+01F3", "U+01F5", "U+0195", "U+01BF",
    "U+01F9", "U+01FB", "U+01FD", "U+01FF", "U+0201", "U+0203", "U+0205",
    "U+0207", "U+0209", "U+020B", "U+020D", "U+020F", "U+0211", "U+0213",
    "U+0215", "U+0217", "U+0219", "U+021B", "U+021D", "U+021F", "U+019E",
    "U+0223", "U+0225", "U+0227", "U+0229", "U+022B", "U+022D", "U+022F",
    "U+0231", "U+0233", "U+2C65", "U+023C", "U+019A", "U+2C66", "U+0242",
    "U+0180", "U+0289", "U+028C", "U+0247", "U+0249", "U+024B", "U+024D",
    "U+024F", "U+0371", "U+0373", "U+0377", "U+03F3", "U+03AC", "U+03AD",
    "U+03AE", "U+03AF", "U+03CC", "U+03CD", "U+03CE", "U+03B1", "U+03B2",
    "U+03B3", "U+03B4", "U+03B5", "U+03B6", "U+03B7", "U+03B8", "U+03B9",
    "U+03BA", "U+03BB", "U+03BC", "U+03BD", "U+03BE", "U+03BF", "U+03C0",
    "U+03C1", "U+03C3", "U+03C4", "U+03C5", "U+03C6", "U+03C7", "U+03C8",
    "U+03C9", "U+03CA", "U+03CB", "U+03D7", "U+03D9", "U+03DB", "U+03DD",
    "U+03DF", "U+03E1", "U+03E3", "U+03E5", "U+03E7", "U+03E9", "U+03EB",
    "U+03ED", "U+03EF", "U+03B8", "U+03F8", "U+03F2", "U+03FB", "U+037B",
    "U+037C", "U+037D", "U+0450", "U+0451", "U+0452", "U+0453", "U+0454",
    "U+0455", "U+0456", "U+0457", "U+0458", "U+0459", "U+045A", "U+045B",
    "U+045C", "U+045D", "U+045E", "U+045F", "U+0430", "U+0431", "U+0432",
    "U+0433", "U+0434", "U+0435", "U+0436", "U+0437", "U+0438", "U+0439",
    "U+043A", "U+043B", "U+043C", "U+043D", "U+043E", "U+043F", "U+0440",
    "U+0441", "U+0442", "U+0443", "U+0444", "U+0445", "U+0446", "U+0447",
    "U+0448", "U+0449", "U+044A", "U+044B", "U+044C", "U+044D", "U+044E",
    "U+044F", "U+0461", "U+0463", "U+0465", "U+0467", "U+0469", "U+046B",
    "U+046D", "U+046F", "U+0471", "U+0473", "U+0475", "U+0477", "U+0479",
    "U+047B", "U+047D", "U+047F", "U+0481", "U+048B", "U+048D", "U+048F",
    "U+0491", "U+0493", "U+0495", "U+0497", "U+0499", "U+049B", "U+049D",
    "U+049F", "U+04A1", "U+04A3", "U+04A5", "U+04A7", "U+04A9", "U+04AB",
    "U+04AD", "U+04AF", "U+04B1", "U+04B3", "U+04B5", "U+04B7", "U+04B9",
    "U+04BB", "U+04BD", "U+04BF", "U+04CF", "U+04C2", "U+04C4", "U+04C6",
    "U+04C8", "U+04CA", "U+04CC", "U+04CE", "U+04D1", "U+04D3", "U+04D5",
    "U+04D7", "U+04D9", "U+04DB", "U+04DD", "U+04DF", "U+04E1", "U+04E3",
    "U+04E5", "U+04E7", "U+04E9", "U+04EB", "U+04ED", "U+04EF", "U+04F1",
    "U+04F3", "U+04F5", "U+04F7", "U+04F9", "U+04FB", "U+04FD", "U+04FF",
    "U+0501", "U+0503", "U+0505", "U+0507", "U+0509", "U+050B", "U+050D",
    "U+050F", "U+0511", "U+0513", "U+0515", "U+0517", "U+0519", "U+051B",
    "U+051D", "U+051F", "U+0521", "U+0523", "U+0525", "U+0527", "U+0529",
    "U+052B", "U+052D", "U+052F", "U+0561", "U+0562", "U+0563", "U+0564",
    "U+0565", "U+0566", "U+0567", "U+0568", "U+0569", "U+056A", "U+056B",
    "U+056C", "U+056D", "U+056E", "U+056F", "U+0570", "U+0571", "U+0572",
    "U+0573", "U+0574", "U+0575", "U+0576", "U+0577", "U+0578", "U+0579",
    "U+057A", "U+057B", "U+057C", "U+057D", "U+057E", "U+057F", "U+0580",
    "U+0581", "U+0582", "U+0583", "U+0584", "U+0585", "U+0586", "U+2D00",
    "U+2D01", "U+2D02", "U+2D03", "U+2D04", "U+2D05", "U+2D06", "U+2D07",
    "U+2D08", "U+2D09", "U+2D0A", "U+2D0B", "U+2D0C", "U+2D0D", "U+2D0E",
    "U+2D0F", "U+2D10", "U+2D11", "U+2D12", "U+2D13", "U+2D14", "U+2D15",
    "U+2D16", "U+2D17", "U+2D18", "U+2D19", "U+2D1A", "U+2D1B", "U+2D1C",
    "U+2D1D", "U+2D1E", "U+2D1F", "U+2D20", "U+2D21", "U+2D22", "U+2D23",
    "U+2D24", "U+2D25", "U+2D27", "U+2D2D", "U+AB70", "U+AB71", "U+AB72",
    "U+AB73", "U+AB74", "U+AB75", "U+AB76", "U+AB77", "U+AB78", "U+AB79",
    "U+AB7A", "U+AB7B", "U+AB7C", "U+AB7D", "U+AB7E", "U+AB7F", "U+AB80",
    "U+AB81", "U+AB82", "U+AB83", "U+AB84", "U+AB85", "U+AB86", "U+AB87",
    "U+AB88", "U+AB89", "U+AB8A", "U+AB8B", "U+AB8C", "U+AB8D", "U+AB8E",
    "U+AB8F", "U+AB90", "U+AB91", "U+AB92", "U+AB93", "U+AB94", "U+AB95",
    "U+AB96", "U+AB97", "U+AB98", "U+AB99", "U+AB9A", "U+AB9B", "U+AB9C",
    "U+AB9D", "U+AB9E", "U+AB9F", "U+ABA0", "U+ABA1", "U+ABA2", "U+ABA3",
    "U+ABA4", "U+ABA5", "U+ABA6", "U+ABA7", "U+ABA8", "U+ABA9", "U+ABAA",
    "U+ABAB", "U+ABAC", "U+ABAD", "U+ABAE", "U+ABAF", "U+ABB0", "U+ABB1",
    "U+ABB2", "U+ABB3", "U+ABB4", "U+ABB5", "U+ABB6", "U+ABB7", "U+ABB8",
    "U+ABB9", "U+ABBA", "U+ABBB", "U+ABBC", "U+ABBD", "U+ABBE", "U+ABBF",
    "U+13F8", "U+13F9", "U+13FA", "U+13FB", "U+13FC", "U+13FD", "U+10D0",
    "U+10D1", "U+10D2", "U+10D3", "U+10D4", "U+10D5", "U+10D6", "U+10D7",
    "U+10D8", "U+10D9", "U+10DA", "U+10DB", "U+10DC", "U+10DD", "U+10DE",
    "U+10DF", "U+10E0", "U+10E1", "U+10E2", "U+10E3", "U+10E4", "U+10E5",
    "U+10E6", "U+10E7", "U+10E8", "U+10E9", "U+10EA", "U+10EB", "U+10EC",
    "U+10ED", "U+10EE", "U+10EF", "U+10F0", "U+10F1", "U+10F2", "U+10F3",
    "U+10F4", "U+10F5", "U+10F6", "U+10F7", "U+10F8", "U+10F9", "U+10FA",
    "U+10FD", "U+10FE", "U+10FF", "U+1E01", "U+1E03", "U+1E05", "U+1E07",
    "U+1E09", "U+1E0B", "U+1E0D", "U+1E0F", "U+1E11", "U+1E13", "U+1E15",
    "U+1E17", "U+1E19", "U+1E1B", "U+1E1D", "U+1E1F", "U+1E21", "U+1E23",
    "U+1E25", "U+1E27", "U+1E29", "U+1E2B", "U+1E2D", "U+1E2F", "U+1E31",
    "U+1E33", "U+1E35", "U+1E37", "U+1E39", "U+1E3B", "U+1E3D", "U+1E3F",
    "U+1E41", "U+1E43", "U+1E45", "U+1E47", "U+1E49", "U+1E4B", "U+1E4D",
    "U+1E4F", "U+1E51", "U+1E53", "U+1E55", "U+1E57", "U+1E59", "U+1E5B",
    "U+1E5D", "U+1E5F", "U+1E61", "U+1E63", "U+1E65", "U+1E67", "U+1E69",
    "U+1E6B", "U+1E6D", "U+1E6F", "U+1E71", "U+1E73", "U+1E75", "U+1E77",
    "U+1E79", "U+1E7B", "U+1E7D", "U+1E7F", "U+1E81", "U+1E83", "U+1E85",
    "U+1E87", "U+1E89", "U+1E8B", "U+1E8D", "U+1E8F", "U+1E91", "U+1E93",
    "U+1E95", "U+00DF", "U+1EA1", "U+1EA3", "U+1EA5", "U+1EA7", "U+1EA9",
    "U+1EAB", "U+1EAD", "U+1EAF", "U+1EB1", "U+1EB3", "U+1EB5", "U+1EB7",
    "U+1EB9", "U+1EBB", "U+1EBD", "U+1EBF", "U+1EC1", "U+1EC3", "U+1EC5",
    "U+1EC7", "U+1EC9", "U+1ECB", "U+1ECD", "U+1ECF", "U+1ED1", "U+1ED3",
    "U+1ED5", "U+1ED7", "U+1ED9", "U+1EDB", "U+1EDD", "U+1EDF", "U+1EE1",
    "U+1EE3", "U+1EE5", "U+1EE7", "U+1EE9", "U+1EEB", "U+1EED", "U+1EEF",
    "U+1EF1", "U+1EF3", "U+1EF5", "U+1EF7", "U+1EF9", "U+1EFB", "U+1EFD",
    "U+1EFF", "U+1F00", "U+1F01", "U+1F02", "U+1F03", "U+1F04", "U+1F05",
    "U+1F06", "U+1F07", "U+1F10", "U+1F11", "U+1F12", "U+1F13", "U+1F14",
    "U+1F15", "U+1F20", "U+1F21", "U+1F22", "U+1F23", "U+1F24", "U+1F25",
    "U+1F26", "U+1F27", "U+1F30", "U+1F31", "U+1F32", "U+1F33", "U+1F34",
    "U+1F35", "U+1F36", "U+1F37", "U+1F40", "U+1F41", "U+1F42", "U+1F43",
    "U+1F44", "U+1F45", "U+1F51", "U+1F53", "U+1F55", "U+1F57", "U+1F60",
    "U+1F61", "U+1F62", "U+1F63", "U+1F64", "U+1F65", "U+1F66", "U+1F67",
    "U+1F80", "U+1F81", "U+1F82", "U+1F83", "U+1F84", "U+1F85", "U+1F86",
    "U+1F87", "U+1F90", "U+1F91", "U+1F92", "U+1F93", "U+1F94", "U+1F95",
    "U+1F96", "U+1F97", "U+1FA0", "U+1FA1", "U+1FA2", "U+1FA3", "U+1FA4",
    "U+1FA5", "U+1FA6", "U+1FA7", "U+1FB0", "U+1FB1", "U+1F70", "U+1F71",
    "U+1FB3", "U+1F72", "U+1F73", "U+1F74", "U+1F75", "U+1FC3", "U+1FD0",
    "U+1FD1", "U+1F76", "U+1F77", "U+1FE0", "U+1FE1", "U+1F7A", "U+1F7B",
    "U+1FE5", "U+1F78", "U+1F79", "U+1F7C", "U+1F7D", "U+1FF3", "U+03C9", "k",
    "U+00E5", "U+214E", "U+2170", "U+2171", "U+2172", "U+2173", "U+2174",
    "U+2175", "U+2176", "U+2177", "U+2178", "U+2179", "U+217A", "U+217B",
    "U+217C", "U+217D", "U+217E", "U+217F", "U+2184", "U+24D0", "U+24D1",
    "U+24D2", "U+24D3", "U+24D4", "U+24D5", "U+24D6", "U+24D7", "U+24D8",
    "U+24D9", "U+24DA", "U+24DB", "U+24DC", "U+24DD", "U+24DE", "U+24DF",
    "U+24E0", "U+24E1", "U+24E2", "U+24E3", "U+24E4", "U+24E5", "U+24E6",
    "U+24E7", "U+24E8", "U+24E9", "U+2C30", "U+2C31", "U+2C32", "U+2C33",
    "U+2C34", "U+2C35", "U+2C36", "U+2C37", "U+2C38", "U+2C39", "U+2C3A",
    "U+2C3B", "U+2C3C", "U+2C3D", "U+2C3E", "U+2C3F", "U+2C40", "U+2C41",
    "U+2C42", "U+2C43", "U+2C44", "U+2C45", "U+2C46", "U+2C47", "U+2C48",
    "U+2C49", "U+2C4A", "U+2C4B", "U+2C4C", "U+2C4D", "U+2C4E", "U+2C4F",
    "U+2C50", "U+2C51", "U+2C52", "U+2C53", "U+2C54", "U+2C55", "U+2C56",
    "U+2C57", "U+2C58", "U+2C59", "U+2C5A", "U+2C5B", "U+2C5C", "U+2C5D",
    "U+2C5E", "U+2C5F", "U+2C61", "U+026B", "U+1D7D", "U+027D", "U+2C68",
    "U+2C6A", "U+2C6C", "U+0251", "U+0271", "U+0250", "U+0252", "U+2C73",
    "U+2C76", "U+023F", "U+0240", "U+2C81", "U+2C83", "U+2C85", "U+2C87",
    "U+2C89", "U+2C8B", "U+2C8D", "U+2C8F", "U+2C91", "U+2C93", "U+2C95",
    "U+2C97", "U+2C99", "U+2C9B", "U+2C9D", "U+2C9F", "U+2CA1", "U+2CA3",
    "U+2CA5", "U+2CA7", "U+2CA9", "U+2CAB", "U+2CAD", "U+2CAF", "U+2CB1",
    "U+2CB3", "U+2CB5", "U+2CB7", "U+2CB9", "U+2CBB", "U+2CBD", "U+2CBF",
    "U+2CC1", "U+2CC3", "U+2CC5", "U+2CC7", "U+2CC9", "U+2CCB", "U+2CCD",
    "U+2CCF", "U+2CD1", "U+2CD3", "U+2CD5", "U+2CD7", "U+2CD9", "U+2CDB",
    "U+2CDD", "U+2CDF", "U+2CE1", "U+2CE3", "U+2CEC", "U+2CEE", "U+2CF3",
    "U+A641", "U+A643", "U+A645", "U+A647", "U+A649", "U+A64B", "U+A64D",
    "U+A64F", "U+A651", "U+A653", "U+A655", "U+A657", "U+A659", "U+A65B",
    "U+A65D", "U+A65F", "U+A661", "U+A663", "U+A665", "U+A667", "U+A669",
    "U+A66B", "U+A66D", "U+A681", "U+A683", "U+A685", "U+A687", "U+A689",
    "U+A68B", "U+A68D", "U+A68F", "U+A691", "U+A693", "U+A695", "U+A697",
    "U+A699", "U+A69B", "U+A723", "U+A725", "U+A727", "U+A729", "U+A72B",
    "U+A72D", "U+A72F", "U+A733", "U+A735", "U+A737", "U+A739", "U+A73B",
    "U+A73D", "U+A73F", "U+A741", "U+A743", "U+A745", "U+A747", "U+A749",
    "U+A74B", "U+A74D", "U+A74F", "U+A751", "U+A753", "U+A755", "U+A757",
    "U+A759", "U+A75B", "U+A75D", "U+A75F", "U+A761", "U+A763", "U+A765",
    "U+A767", "U+A769", "U+A76B", "U+A76D", "U+A76F", "U+A77A", "U+A77C",
    "U+1D79", "U+A77F", "U+A781", "U+A783", "U+A785", "U+A787", "U+A78C",
    "U+0265", "U+A791", "U+A793", "U+A797", "U+A799", "U+A79B", "U+A79D",
    "U+A79F", "U+A7A1", "U+A7A3", "U+A7A5", "U+A7A7", "U+A7A9", "U+0266",
    "U+025C", "U+0261", "U+026C", "U+026A", "U+029E", "U+0287", "U+029D",
    "U+AB53", "U+A7B5", "U+A7B7", "U+A7B9", "U+A7BB", "U+A7BD", "U+A7BF",
    "U+A7C1", "U+A7C3", "U+A794", "U+0282", "U+1D8E", "U+A7C8", "U+A7CA",
    "U+A7D1", "U+A7D7", "U+A7D9", "U+A7F6", "U+FF41", "U+FF42", "U+FF43",
    "U+FF44", "U+FF45", "U+FF46", "U+FF47", "U+FF48", "U+FF49", "U+FF4A",
    "U+FF4B", "U+FF4C", "U+FF4D", "U+FF4E", "U+FF4F", "U+FF50", "U+FF51",
    "U+FF52", "U+FF53", "U+FF54", "U+FF55", "U+FF56", "U+FF57", "U+FF58",
    "U+FF59", "U+FF5A", "U+10428", "U+10429", "U+1042A", "U+1042B", "U+1042C",
    "U+1042D", "U+1042E", "U+1042F", "U+10430", "U+10431", "U+10432",
    "U+10433", "U+10434", "U+10435", "U+10436", "U+10437", "U+10438",
    "U+10439", "U+1043A", "U+1043B", "U+1043C", "U+1043D", "U+1043E",
    "U+1043F", "U+10440", "U+10441", "U+10442", "U+10443", "U+10444",
    "U+10445", "U+10446", "U+10447", "U+10448", "U+10449", "U+1044A",
    "U+1044B", "U+1044C", "U+1044D", "U+1044E", "U+1044F", "U+104D8",
    "U+104D9", "U+104DA", "U+104DB", "U+104DC", "U+104DD", "U+104DE",
    "U+104DF", "U+104E0", "U+104E1", "U+104E2", "U+104E3", "U+104E4",
    "U+104E5", "U+104E6", "U+104E7", "U+104E8", "U+104E9", "U+104EA",
    "U+104EB", "U+104EC", "U+104ED", "U+104EE", "U+104EF", "U+104F0",
    "U+104F1", "U+104F2", "U+104F3", "U+104F4", "U+104F5", "U+104F6",
    "U+104F7", "U+104F8", "U+104F9", "U+104FA", "U+104FB", "U+10597",
    "U+10598", "U+10599", "U+1059A", "U+1059B", "U+1059C", "U+1059D",
    "U+1059E", "U+1059F", "U+105A0", "U+105A1", "U+105A3", "U+105A4",
    "U+105A5", "U+105A6", "U+105A7", "U+105A8", "U+105A9", "U+105AA",
    "U+105AB", "U+105AC", "U+105AD", "U+105AE", "U+105AF", "U+105B0",
    "U+105B1", "U+105B3", "U+105B4", "U+105B5", "U+105B6", "U+105B7",
    "U+105B8", "U+105B9", "U+105BB", "U+105BC", "U+10CC0", "U+10CC1",
    "U+10CC2", "U+10CC3", "U+10CC4", "U+10CC5", "U+10CC6", "U+10CC7",
    "U+10CC8", "U+10CC9", "U+10CCA", "U+10CCB", "U+10CCC", "U+10CCD",
    "U+10CCE", "U+10CCF", "U+10CD0", "U+10CD1", "U+10CD2", "U+10CD3",
    "U+10CD4", "U+10CD5", "U+10CD6", "U+10CD7", "U+10CD8", "U+10CD9",
    "U+10CDA", "U+10CDB", "U+10CDC", "U+10CDD", "U+10CDE", "U+10CDF",
    "U+10CE0", "U+10CE1", "U+10CE2", "U+10CE3", "U+10CE4", "U+10CE5",
    "U+10CE6", "U+10CE7", "U+10CE8", "U+10CE9", "U+10CEA", "U+10CEB",
    "U+10CEC", "U+10CED", "U+10CEE", "U+10CEF", "U+10CF0", "U+10CF1",
    "U+10CF2", "U+118C0", "U+118C1", "U+118C2", "U+118C3", "U+118C4",
    "U+118C5", "U+118C6", "U+118C7", "U+118C8", "U+118C9", "U+118CA",
    "U+118CB", "U+118CC", "U+118CD", "U+118CE", "U+118CF", "U+118D0",
    "U+118D1", "U+118D2", "U+118D3", "U+118D4", "U+118D5", "U+118D6",
    "U+118D7", "U+118D8", "U+118D9", "U+118DA", "U+118DB", "U+118DC",
    "U+118DD", "U+118DE", "U+118DF", "U+16E60", "U+16E61", "U+16E62",
    "U+16E63", "U+16E64", "U+16E65", "U+16E66", "U+16E67", "U+16E68",
    "U+16E69", "U+16E6A", "U+16E6B", "U+16E6C", "U+16E6D", "U+16E6E",
    "U+16E6F", "U+16E70", "U+16E71", "U+16E72", "U+16E73", "U+16E74",
    "U+16E75", "U+16E76", "U+16E77", "U+16E78", "U+16E79", "U+16E7A",
    "U+16E7B", "U+16E7C", "U+16E7D", "U+16E7E", "U+16E7F", "U+1E922",
    "U+1E923", "U+1E924", "U+1E925", "U+1E926", "U+1E927", "U+1E928",
    "U+1E929", "U+1E92A", "U+1E92B", "U+1E92C", "U+1E92D", "U+1E92E",
    "U+1E92F", "U+1E930", "U+1E931", "U+1E932", "U+1E933", "U+1E934",
    "U+1E935", "U+1E936", "U+1E937", "U+1E938", "U+1E939", "U+1E93A",
    "U+1E93B", "U+1E93C", "U+1E93D", "U+1E93E", "U+1E93F", "U+1E940",
    "U+1E941", "U+1E942", "U+1E943">>

\* re.IGNORECASE: the lower-case characters that have further equivalents ...
CaseFixFrom == <<
    "i", "s", "U+00B5", "U+0131", "U+017F", "U+0345", "U+0390", "U+03B0",
    "U+03B2", "U+03B5", "U+03B8", "U+03B9", "U+03BA", "U+03BC", "U+03C0",
    "U+03C1", "U+03C2", "U+03C3", "U+03C6", "U+03D0", "U+03D1", "U+03D5",
    "U+03D6", "U+03F0", "U+03F1", "U+03F5", "U+0432", "U+0434", "U+043E",
    "U+0441", "U+0442", "U+044A", "U+0463", "U+1C80", "U+1C81", "U+1C82",
    "U+1C83", "U+1C84", "U+1C85", "U+1C86", "U+1C87", "U+1C88", "U+1E61",
    "U+1E9B", "U+1FBE", "U+1FD3", "U+1FE3", "U+A64B", "U+FB05", "U+FB06">>

\* ... and these equivalents
CaseFixTo == <<
    {"U+0131"}, {"U+017F"}, {"U+03BC"}, {"i"}, {"s"}, {"U+03B9", "U+1FBE"},
    {"U+1FD3"}, {"U+1FE3"}, {"U+03D0"}, {"U+03F5"}, {"U+03D1"},
    {"U+0345", "U+1FBE"}, {"U+03F0"}, {"U+00B5"}, {"U+03D6"}, {"U+03F1"},
    {"U+03C3"}, {"U+03C2"}, {"U+03D5"}, {"U+03B2"}, {"U+03B8"}, {"U+03C6"},
    {"U+03C0"}, {"U+03BA"}, {"U+03C1"}, {"U+03B5"}, {"U+1C80"}, {"U+1C81"},
    {"U+1C82"}, {"U+1C83"}, {"U+1C84", "U+1C85"}, {"U+1C86"}, {"U+1C87"},
    {"U+0432"}, {"U+0434"}, {"U+043E"}, {"U+0441"}, {"U+0442", "U+1C85"},
    {"U+0442", "U+1C84"}, {"U+044A"}, {"U+0463"}, {"U+A64B"}, {"U+1E9B"},
    {"U+1E61"}, {"U+0345", "U+03B9"}, {"U+0390"}, {"U+03B0"}, {"U+1C88"},
    {"U+FB06"}, {"U+FB05"}>>

\* the three tables as functions
UpperOf ==
    [c \in {UpperFrom[i] : i \in 1..Len(UpperFrom)} |->
        UpperTo[CHOOSE i \in 1..Len(UpperFrom) : UpperFrom[i] = c]]
LowerOf ==
    [c \in {LowerFrom[i] : i \in 1..Len(LowerFrom)} |->
        LowerTo[CHOOSE i \in 1..Len(LowerFrom) : LowerFrom[i] = c]]
CaseFixOf ==
    [c \in {CaseFixFrom[i] : i \in 1..Len(CaseFixFrom)} |->
        CaseFixTo[CHOOSE i \in 1..Len(CaseFixFrom) : CaseFixFrom[i] = c]]

\* str.upper() on one character: a str of one to three characters
UpperChar(c) == IF c \in DOMAIN UpperOf THEN UpperOf[c] ELSE <<c>>

\* str.upper()
RECURSIVE Upper(_)
Upper(s) == IF s = <<>> THEN <<>> ELSE UpperChar(Head(s)) \o Upper(Tail(s))

LowerChar(c) == IF c \in DOMAIN LowerOf THEN LowerOf[c] ELSE c

\* the character c matches the literal p of a pattern under re.IGNORECASE
IgnoreCaseEq(c, p) ==
    \/ c = p
    \/ LowerChar(c) = LowerChar(p)
    \/ /\ LowerChar(p) \in DOMAIN CaseFixOf
       /\ LowerChar(c) \in CaseFixOf[LowerChar(p)]

(* ---------------------------------------------------------------------- *)
(* String helpers: str.split('\n'), '\n'.join, str.strip                  *)
(* ---------------------------------------------------------------------- *)
RECURSIVE SplitAcc(_, _, _)
SplitAcc(s, i, cur) ==
    IF i > Len(s) THEN <<cur>>
    ELSE IF s[i] = NL THEN <<cur>> \o SplitAcc(s, i + 1, <<>>)
    ELSE SplitAcc(s, i + 1, Append(cur, s[i]))

Split(s) == SplitAcc(s, 1, <<>>)

RECURSIVE Join(_)
Join(ls) ==
    IF ls = <<>> THEN <<>>
    ELSE IF Len(ls) = 1 THEN ls[1]
    ELSE ls[1] \o <<NL>> \o Join(Tail(ls))

RECURSIVE LStrip(_)
LStrip(s) == IF s /= <<>> /\ Head(s) \in Whitespace THEN LStrip(Tail(s)) ELSE s

RECURSIVE RStrip(_)
RStrip(s) ==
    IF s /= <<>> /\ s[Len(s)] \in Whitespace
    THEN RStrip(SubSeq(s, 1, Len(s) - 1))
    ELSE s

Strip(s) == RStrip(LStrip(s))

(* ---------------------------------------------------------------------- *)
(* clean_text                                                             *)
(* ---------------------------------------------------------------------- *)
\* last index of the whitespace run that starts at i (i - 1 if there is none)
RECURSIVE WsRunEnd(_, _)
WsRunEnd(s, i) ==
    IF i <= Len(s) /\ s[i] \in Whitespace THEN WsRunEnd(s, i + 1) ELSE i - 1

\* greatest index in lo..hi holding a newline, 0 if there is none
LastNL(s, lo, hi) ==
    LET js == {j \in lo..hi : s[j] = NL}
    IN IF js = {} THEN 0 ELSE CHOOSE j \in js : \A k \in js : k <= j

\* re.sub(r'\n\s*\n', '\n\n', text), scanning from index i
RECURSIVE SubBlankFrom(_, _)
SubBlankFrom(s, i) ==
    IF i > Len(s) THEN <<>>
    ELSE IF s[i] = NL
         THEN LET j == LastNL(s, i + 1, WsRunEnd(s, i + 1))
              IN IF j > 0 THEN <<NL, NL>> \o SubBlankFrom(s, j + 1)
                 ELSE <<s[i]>> \o SubBlankFrom(s, i + 1)
         ELSE <<s[i]>> \o SubBlankFrom(s, i + 1)

SubBlank(s) == SubBlankFrom(s, 1)

\* re.sub(r' +', ' ', text)
RECURSIVE SubSpacesFrom(_, _)
SubSpacesFrom(s, i) ==
    IF i > Len(s) THEN <<>>
    ELSE IF s[i] = " " /\ i > 1 /\ s[i - 1] = " " THEN SubSpacesFrom(s, i + 1)
    ELSE <<s[i]>> \o SubSpacesFrom(s, i + 1)

\* variant: one pass replacing each pair of spaces by one space
RECURSIVE SubSpacePairsFrom(_, _)
SubSpacePairsFrom(s, i) ==
    IF i > Len(s) THEN <<>>
    ELSE IF s[i] = " " /\ i < Len(s) /\ s[i + 1] = " "
         THEN <<" ">> \o SubSpacePairsFrom(s, i + 2)
         ELSE <<s[i]>> \o SubSpacePairsFrom(s, i + 1)

SubSpacePairs(s) == SubSpacePairsFrom(s, 1)

SubSpaces(s) == SubSpacesFrom(s, 1)

\* re.match(r'^\d+$', line): $ matches at the end and before a last newline
IsPageNumber(line) ==
    LET body == IF line /= <<>> /\ line[Len(line)] = NL
                THEN SubSeq(line, 1, Len(line) - 1)
                ELSE line
    IN body /= <<>> /\ \A i \in 1..Len(body) : body[i] \in Digits

\* re.search(r'[U+0430-U+044F U+0451 a-z]', line, re.IGNORECASE)
HasLetter(line) == \E i \in 1..Len(line) : line[i] \in Letters

\* the two `continue` filters of the loop of clean_text, on a stripped line
KeepLine(line) ==
    /\ ~(IsPageNumber(line) /\ Len(line) < 5)
    /\ ~(Len(line) < 3 /\ ~HasLetter(line))

clean_text(text) ==
    LET t3 == Strip(SubSpaces(SubBlank(text)))
        lines == Split(t3)
        stripped == [i \in 1..Len(lines) |-> Strip(lines[i])]
    IN Join(SelectSeq(stripped, KeepLine))

(* ---------------------------------------------------------------------- *)
(* Heading patterns.  A pattern is a sequence of alternatives, and an      *)
(* alternative a sequence of tokens: "WS*" is \s*, "WS+" is \s+, "D+" is   *)
(* \d+, and any other token is that literal character.  The leading ^ is   *)
(* implied by re.match, which only matches at the start of the line.       *)
(* ---------------------------------------------------------------------- *)
DefaultPatterns == <<
    \* r'^\s*(?:INT\.|EXT\.|INT\/EXT\.|FADE IN:|FADE OUT:)'
    << <<"WS*", "I", "N", "T", ".">>,
       <<"WS*", "E", "X", "T", ".">>,
       <<"WS*", "I", "N", "T", "/", "E", "X", "T", ".">>,
       <<"WS*", "F", "A", "D", "E", " ", "I", "N", ":">>,
       <<"WS*", "F", "A", "D", "E", " ", "O", "U", "T", ":">> >>,
    \* r'^\s*\d+\.\s*'
    << <<"WS*", "D+", ".", "WS*">> >>,
    \* r'^\s*(?:SCENE\s+\d+|CUT TO:)'
    << <<"WS*", "S", "C", "E", "N", "E", "WS+", "D+">>,
       <<"WS*", "C", "U", "T", " ", "T", "O", ":">> >>,
    \* r'^\s*(?:EST\.|MEDIUM|CLOSE|ANGLE)'
    << <<"WS*", "E", "S", "T", ".">>,
       <<"WS*", "M", "E", "D", "I", "U", "M">>,
       <<"WS*", "C", "L", "O", "S", "E">>,
       <<"WS*", "A", "N", "G", "L", "E">> >> >>

\* the Optional[List[str]] argument of __init__: None, or a list of patterns
None == [is_none |-> TRUE, list |-> <<>>]
Given(list) == [is_none |-> FALSE, list |-> list]

\* ScriptLoader.__init__: self.scene_patterns = scene_patterns or [defaults]
\* (None and the empty list are both falsy)
InitPatterns(arg) ==
    IF arg.is_none \/ arg.list = <<>> THEN DefaultPatterns ELSE arg.list

\* last index of the run of digits that starts at i (i - 1 if there is none)
RECURSIVE DigitRunEnd(_, _)
DigitRunEnd(s, i) ==
    IF i <= Len(s) /\ s[i] \in Digits THEN DigitRunEnd(s, i + 1) ELSE i - 1

\* the token sequence toks matches s from index i on (re.IGNORECASE)
RECURSIVE MatchAt(_, _, _)
MatchAt(toks, s, i) ==
    IF toks = <<>> THEN TRUE
    ELSE LET t == Head(toks)
             rest == Tail(toks)
         IN CASE t = "WS*" ->
                   \E k \in i..(WsRunEnd(s, i) + 1) : MatchAt(rest, s, k)
              [] t = "WS+" ->
                   \E k \in (i + 1)..(WsRunEnd(s, i) + 1) : MatchAt(rest, s, k)
              [] t = "D+" ->
                   \E k \in (i + 1)..(DigitRunEnd(s, i) + 1) : MatchAt(rest, s, k)
              [] OTHER ->
                   /\ i <= Len(s)
                   /\ IgnoreCaseEq(s[i], t)
                   /\ MatchAt(rest, s, i + 1)

\* pattern.match(line)
PatternMatch(pattern, line) ==
    \E a \in 1..Len(pattern) : MatchAt(pattern[a], line, 1)

\* the inner for loop of segment_into_scenes: is_new_scene
is_new_scene(patterns, line) ==
    \E p \in 1..Len(patterns) : PatternMatch(patterns[p], line)

(* ---------------------------------------------------------------------- *)
(* Scene builder                                                          *)
(* ---------------------------------------------------------------------- *)
TypeInterior == "interior"
TypeExterior == "exterior"
TypeIntExt == "interior/exterior"
TypeUndetermined == "undetermined"

INT == <<"I", "N", "T", ".">>
EXT == <<"E", "X", "T", ".">>
INTEXT == <<"I", "N", "T", "/", "E", "X", "T", ".">>

\* Python's `sub in s`
Contains(s, sub) ==
    \E p \in 1..(Len(s) - Len(sub) + 1) : SubSeq(s, p, p + Len(sub) - 1) = sub

\* variant: the combined marker is tested first
CombinedFirstSceneType(lines) ==
    LET title == IF lines /= <<>> THEN Upper(lines[1]) ELSE <<>>
    IN IF Contains(title, INTEXT) THEN TypeIntExt
       ELSE IF Contains(title, INT) THEN TypeInterior
       ELSE IF Contains(title, EXT) THEN TypeExterior
       ELSE TypeUndetermined

_determine_scene_type(lines) ==
    LET title == IF lines /= <<>> THEN Upper(lines[1]) ELSE <<>>
    IN IF Contains(title, INT) THEN TypeInterior
       ELSE IF Contains(title, EXT) THEN TypeExterior
       ELSE IF Contains(title, INTEXT) THEN TypeIntExt
       ELSE TypeUndetermined

\* the alternatives of group 1 of the location regex, in order
LocMarkers == <<INT, EXT, INTEXT>>

\* lit occurs in s at index p, ignoring case
LitAt(lit, s, p) ==
    /\ p + Len(lit) - 1 <= Len(s)
    /\ \A k \in 1..Len(lit) : IgnoreCaseEq(s[p + k - 1], lit[k])

\* last index of the run of characters other than '-' that starts at i
RECURSIVE NonDashRunEnd(_, _)
NonDashRunEnd(s, i) ==
    IF i <= Len(s) /\ s[i] /= "-" THEN NonDashRunEnd(s, i + 1) ELSE i - 1

\* r'\s*([^-]+)' tried at index e: the index where group 2 starts, 0 when it
\* cannot match.  \s* is greedy and gives back one whitespace character to
\* [^-]+ when the run of whitespace is followed by '-' or by the end.
Group2Start(s, e) ==
    LET w == WsRunEnd(s, e)
    IN IF w + 1 <= Len(s) /\ s[w + 1] /= "-" THEN w + 1
       ELSE IF w >= e THEN w
       ELSE 0

\* the regex of _extract_location matches s starting at index p
LocMatchesAt(s, p) ==
    \E a \in 1..Len(LocMarkers) :
        /\ LitAt(LocMarkers[a], s, p)
        /\ Group2Start(s, p + Len(LocMarkers[a])) > 0

\* group(2) of the match that starts at index p (the empty str when the
\* regex does not match there)
LocGroup2(s, p) ==
    LET alts == {x \in 1..Len(LocMarkers) :
                 /\ LitAt(LocMarkers[x], s, p)
                 /\ Group2Start(s, p + Len(LocMarkers[x])) > 0}
    IN IF alts = {} THEN <<>>
       ELSE LET a == CHOOSE x \in alts : \A y \in alts : x <= y
                g == Group2Start(s, p + Len(LocMarkers[a]))
            IN SubSeq(s, g, NonDashRunEnd(s, g))

TitleLimit == 50
Ellipsis == <<".", ".", ".">>

\* variant: group(2) is returned without .strip()
UnstrippedLocation(title) ==
    LET ps == {p \in 1..Len(title) : LocMatchesAt(title, p)}
    IN IF ps /= {}
       THEN LocGroup2(title, CHOOSE p \in ps : \A q \in ps : p <= q)
       ELSE IF Len(title) > TitleLimit
            THEN SubSeq(title, 1, TitleLimit) \o Ellipsis
            ELSE title

_extract_location(title) ==
    LET ps == {p \in 1..Len(title) : LocMatchesAt(title, p)}
    IN IF ps /= {}
       THEN Strip(LocGroup2(title, CHOOSE p \in ps : \A q \in ps : p <= q))
       ELSE IF Len(title) > TitleLimit
            THEN SubSeq(title, 1, TitleLimit) \o Ellipsis
            ELSE title

\* len(line.split())
WordCount(line) ==
    Cardinality({i \in 1..Len(line) :
                    /\ line[i] \notin Whitespace
                    /\ (i = 1 \/ line[i - 1] \in Whitespace)})

RECURSIVE SumWords(_)
SumWords(lines) ==
    IF lines = <<>> THEN 0 ELSE WordCount(Head(lines)) + SumWords(Tail(lines))

\* str.isupper()
IsUpper(line) ==
    /\ \E i \in 1..Len(line) : line[i] \in UpperCaseChars
    /\ \A i \in 1..Len(line) : line[i] \notin LowerCaseChars

_extract_metadata(lines) ==
    [line_count |-> Len(lines),
     word_count |-> SumWords(lines),
     has_dialogue |-> \E i \in 1..Len(lines) :
                          IsUpper(lines[i]) /\ Len(lines[i]) < 50,
     scene_type |-> _determine_scene_type(lines)]

_create_scene(lines, number) ==
    LET title == IF lines /= <<>> THEN lines[1] ELSE <<>>
    IN [number |-> number,
        title |-> title,
        location |-> _extract_location(title),
        content |-> IF Len(lines) > 1 THEN Join(Tail(lines)) ELSE <<>>,
        raw_text |-> Join(lines),
        metadata |-> _extract_metadata(lines)]

(* ---------------------------------------------------------------------- *)
(* load_script: the file and its text.  A document is what the extraction  *)
(* library presents: the sequence of the texts of its pages (pdf) or of    *)
(* its paragraphs (docx); a page without text has the empty text.  The     *)
(* route of an extraction names the library call that ends it.             *)
(* ---------------------------------------------------------------------- *)
PdfExt == ".pdf"
DocxExt == ".docx"

\* lines 67-71: every page text that is not empty, followed by a newline
RECURSIVE PdfPlumberText(_)
PdfPlumberText(pages) ==
    IF pages = <<>> THEN <<>>
    ELSE (IF Head(pages) /= <<>> THEN Head(pages) \o <<NL>> ELSE <<>>)
            \o PdfPlumberText(Tail(pages))

\* lines 80-82 and 100-102: every page or paragraph text, followed by a newline
RECURSIVE EachWithNewline(_)
EachWithNewline(units) ==
    IF units = <<>> THEN <<>>
    ELSE Head(units) \o <<NL>> \o EachWithNewline(Tail(units))

\* pdfplumber reads the file; when it raises, PyPDF2 reads it; when that
\* raises too, the exception leaves the method
PdfRoutes == {"pdfplumber", "PyPDF2", "raise"}
extract_text_from_pdf(pages, route) ==
    IF route = "pdfplumber"
    THEN [raised |-> FALSE, text |-> PdfPlumberText(pages)]
    ELSE IF route = "PyPDF2"
    THEN [raised |-> FALSE, text |-> EachWithNewline(pages)]
    ELSE [raised |-> TRUE, text |-> <<>>]

\* python-docx reads the file; when it raises, the exception leaves the method
DocxRoutes == {"docx", "raise"}
extract_text_from_docx(paragraphs, route) ==
    IF route = "docx"
    THEN [raised |-> FALSE, text |-> EachWithNewline(paragraphs)]
    ELSE [raised |-> TRUE, text |-> <<>>]

\* load_script, lines 286-297: the exception raised ("" if none) and raw_text.
\* file_ext is os.path.splitext(file_path)[1].lower()
LoadText(exists, file_ext, doc, route) ==
    IF ~exists THEN [error |-> "FileNotFoundError", text |-> <<>>]
    ELSE IF file_ext = PdfExt
    THEN LET out == extract_text_from_pdf(doc, route)
         IN [error |-> IF out.raised THEN "ExtractionError" ELSE "",
             text |-> out.text]
    ELSE IF file_ext = DocxExt
    THEN LET out == extract_text_from_docx(doc, route)
         IN [error |-> IF out.raised THEN "ExtractionError" ELSE "",
             text |-> out.text]
    ELSE [error |-> "ValueError", text |-> <<>>]

(* ---------------------------------------------------------------------- *)
(* load_script: result assembly                                           *)
(* ---------------------------------------------------------------------- *)
\* Line 9 is `from turtle import pd`: the module global pd exists and is the
\* turtle function pd (pendown), which has no attribute Timestamp.
PdInGlobals == TRUE
PdHasTimestamp == FALSE

NoResult == [assembled |-> FALSE]

\* the dict literal of load_script (file_info comes from the file system and
\* is left out); evaluating 'processed_at' raises when pd has no Timestamp
AssembleResult(raw, cleaned, scs) ==
    [assembled |-> TRUE,
     text_info |-> [raw_length |-> Len(raw),
                    cleaned_length |-> Len(cleaned),
                    scene_count |-> Len(scs)],
     scenes |-> scs]

(* ---------------------------------------------------------------------- *)
(* Inputs                                                                 *)
(* ---------------------------------------------------------------------- *)
\* pieces the text of a document is concatenated from
Frags == {<<NL>>, <<" ">>, <<"\r">>, <<"1">>, <<".">>, <<"a">>, INT}

\* pieces a stand-alone title is concatenated from
LongWord == [i \in 1..TitleLimit |-> "x"]
TitleFrags == {INT, EXT, INTEXT, <<"i", "n", "t", ".">>,
               <<"U+0131", "n", "t", ".">>,
               <<" ">>, <<"U+00A0">>, <<"-">>, <<"K">>, LongWord}

\* a caller-supplied pattern, r'^a'
CustomPattern == << <<"a">> >>
PatternArgs == {None, Given(<<>>), Given(<<CustomPattern>>)}

RECURSIVE Flatten(_)
Flatten(frs) == IF frs = <<>> THEN <<>> ELSE Head(frs) \o Flatten(Tail(frs))

Texts(frags, n) == {Flatten(frs) : frs \in UNION {[1..k -> frags] : k \in 0..n}}

\* the document made of a text: without pages, of one page, or of one page
\* or paragraph per line of the text
DocShapes == {"empty", "one", "lines"}
Doc(t, shape) ==
    IF shape = "empty" THEN <<>>
    ELSE IF shape = "one" THEN <<t>>
    ELSE Split(t)

\* extensions of a path, lower-cased: supported ones, another one, none
FileExts == {PdfExt, DocxExt, ".txt", ""}

\* the routes an extraction of a file with this extension can take
Routes(file_ext) ==
    IF file_ext = PdfExt THEN PdfRoutes
    ELSE IF file_ext = DocxExt THEN DocxRoutes
    ELSE {"none"}

(* ---------------------------------------------------------------------- *)
(* State                                                                  *)
(* ---------------------------------------------------------------------- *)
VARIABLES
    scene_patterns_arg,  \* argument of ScriptLoader.__init__
    scene_patterns,      \* self.scene_patterns / self.compiled_patterns
    raw_text,            \* load_script: raw_text
    cleaned_text,        \* load_script: cleaned_text
    lines,               \* segment_into_scenes: lines
    idx,                 \* position of the for loop in lines (1-based)
    scenes,              \* segment_into_scenes: scenes
    current_scene,       \* segment_into_scenes: current_scene
    scene_number,        \* segment_into_scenes: scene_number
    result,              \* load_script: result
    error,               \* exception raised by load_script, "" if none
    pc,                  \* position in load_script ("failed": left by an
                         \* exception before line 300)
    title,               \* stand-alone title handed to the scene builder
    location,            \* _extract_location(title)
    scene_type,          \* _determine_scene_type([title])
    tpc                  \* position of the stand-alone title run

vars == <<scene_patterns_arg, scene_patterns, raw_text, cleaned_text, lines,
          idx, scenes, current_scene, scene_number, result, error, pc,
          title, location, scene_type, tpc>>

loaderVars == <<scene_patterns_arg, scene_patterns, raw_text, cleaned_text,
                lines, idx, scenes, current_scene, scene_number, result,
                error, pc>>

titleVars == <<title, location, scene_type, tpc>>

(* ---------------------------------------------------------------------- *)
(* The pipeline of load_script                                            *)
(* ---------------------------------------------------------------------- *)
Init ==
    /\ scene_patterns_arg \in PatternArgs
    /\ scene_patterns = InitPatterns(scene_patterns_arg)
    /\ raw_text = <<>>
    /\ cleaned_text = <<>>
    /\ lines = <<>>
    /\ idx = 1
    /\ scenes = <<>>
    /\ current_scene = <<>>
    /\ scene_number = 1
    /\ result = NoResult
    /\ error = ""
    /\ pc = "load"
    /\ title = <<>>
    /\ location = <<>>
    /\ scene_type = ""
    /\ tpc = "idle"

\* load_script, lines 286-297, for any file: the path exists or not, has
\* one of the extensions, and the extraction takes one of its routes on the
\* document (which is only read when a library call succeeds)
LoadScript ==
    /\ pc = "load"
    /\ \E exists \in BOOLEAN, file_ext \in FileExts :
          \E route \in Routes(file_ext) :
             \E shape \in (IF exists /\ route \notin {"raise", "none"}
                           THEN DocShapes ELSE {"empty"}) :
                \E t \in (IF shape = "empty"
                           THEN {<<>>} ELSE Texts(Frags, MaxFrags)) :
                   LET out == LoadText(exists, file_ext, Doc(t, shape), route)
                   IN /\ error' = out.error
                      /\ raw_text' = out.text
                      /\ pc' = IF out.error = "" THEN "clean" ELSE "failed"
    /\ UNCHANGED <<scene_patterns_arg, scene_patterns, cleaned_text, lines,
                   idx, scenes, current_scene, scene_number, result>>
    /\ UNCHANGED titleVars

\* load_script, line 300: cleaned_text = self.clean_text(raw_text)
CleanText ==
    /\ pc = "clean"
    /\ cleaned_text' = clean_text(raw_text)
    /\ pc' = "segment"
    /\ UNCHANGED <<scene_patterns_arg, scene_patterns, raw_text, lines, idx,
                   scenes, current_scene, scene_number, result, error>>
    /\ UNCHANGED titleVars

\* segment_into_scenes, lines 151-154
SegmentBegin ==
    /\ pc = "segment"
    /\ lines' = Split(cleaned_text)
    /\ scenes' = <<>>
    /\ current_scene' = <<>>
    /\ scene_number' = 1
    /\ idx' = 1
    /\ pc' = "loop"
    /\ UNCHANGED <<scene_patterns_arg, scene_patterns, raw_text, cleaned_text,
                   result, error>>
    /\ UNCHANGED titleVars

\* loop body, lines 157-159: an empty line is skipped
LoopSkip ==
    /\ pc = "loop"
    /\ idx <= Len(lines)
    /\ Strip(lines[idx]) = <<>>
    /\ idx' = idx + 1
    /\ UNCHANGED <<scene_patterns_arg, scene_patterns, raw_text, cleaned_text,
                   lines, scenes, current_scene, scene_number, result, error,
                   pc>>
    /\ UNCHANGED titleVars

\* variant: the heading line is not put into the new buffer
LoopNewSceneDropsHeading ==
    /\ pc = "loop"
    /\ idx <= Len(lines)
    /\ LET line == Strip(lines[idx])
       IN /\ line /= <<>>
          /\ is_new_scene(scene_patterns, line)
          /\ current_scene /= <<>>
          /\ scenes' = Append(scenes, _create_scene(current_scene, scene_number))
          /\ scene_number' = scene_number + 1
          /\ current_scene' = <<>>
    /\ idx' = idx + 1
    /\ UNCHANGED <<scene_patterns_arg, scene_patterns, raw_text, cleaned_text,
                   lines, result, error, pc>>
    /\ UNCHANGED titleVars

\* variant: scene_number is not incremented
LoopNewSceneSameNumber ==
    /\ pc = "loop"
    /\ idx <= Len(lines)
    /\ LET line == Strip(lines[idx])
       IN /\ line /= <<>>
          /\ is_new_scene(scene_patterns, line)
          /\ current_scene /= <<>>
          /\ scenes' = Append(scenes, _create_scene(current_scene, scene_number))
          /\ scene_number' = scene_number
          /\ current_scene' = <<line>>
    /\ idx' = idx + 1
    /\ UNCHANGED <<scene_patterns_arg, scene_patterns, raw_text, cleaned_text,
                   lines, result, error, pc>>
    /\ UNCHANGED titleVars

\* variant: the heading line is put at the end of the scene it closes
LoopNewSceneKeepsHeading ==
    /\ pc = "loop"
    /\ idx <= Len(lines)
    /\ LET line == Strip(lines[idx])
       IN /\ line /= <<>>
          /\ is_new_scene(scene_patterns, line)
          /\ current_scene /= <<>>
          /\ scenes' = Append(scenes,
                 _create_scene(Append(current_scene, line), scene_number))
          /\ scene_number' = scene_number + 1
          /\ current_scene' = <<>>
    /\ idx' = idx + 1
    /\ UNCHANGED <<scene_patterns_arg, scene_patterns, raw_text, cleaned_text,
                   lines, result, error, pc>>
    /\ UNCHANGED titleVars

\* loop body, lines 169-173: a heading closes the scene being collected
LoopNewScene ==
    /\ pc = "loop"
    /\ idx <= Len(lines)
    /\ LET line == Strip(lines[idx])
       IN /\ line /= <<>>
          /\ is_new_scene(scene_patterns, line)
          /\ current_scene /= <<>>
          /\ scenes' = Append(scenes, _create_scene(current_scene, scene_number))
          /\ scene_number' = scene_number + 1
          /\ current_scene' = <<line>>
    /\ idx' = idx + 1
    /\ UNCHANGED <<scene_patterns_arg, scene_patterns, raw_text, cleaned_text,
                   lines, result, error, pc>>
    /\ UNCHANGED titleVars

\* loop body, lines 174-175: any other line joins the scene being collected
LoopAppend ==
    /\ pc = "loop"
    /\ idx <= Len(lines)
    /\ LET line == Strip(lines[idx])
       IN /\ line /= <<>>
          /\ ~(is_new_scene(scene_patterns, line) /\ current_scene /= <<>>)
          /\ current_scene' = Append(current_scene, line)
    /\ idx' = idx + 1
    /\ UNCHANGED <<scene_patterns_arg, scene_patterns, raw_text, cleaned_text,
                   lines, scenes, scene_number, result, error, pc>>
    /\ UNCHANGED titleVars

\* variant: the buffer left after the loop is not turned into a scene
SegmentEndForgetsLast ==
    /\ pc = "loop"
    /\ idx > Len(lines)
    /\ scenes' = scenes
    /\ pc' = "assemble"
    /\ UNCHANGED <<scene_patterns_arg, scene_patterns, raw_text, cleaned_text,
                   lines, idx, current_scene, scene_number, result, error>>
    /\ UNCHANGED titleVars

\* variant: the buffer left after the loop is built without `if current_scene`
SegmentEndUnguarded ==
    /\ pc = "loop"
    /\ idx > Len(lines)
    /\ scenes' = Append(scenes, _create_scene(current_scene, scene_number))
    /\ pc' = "assemble"
    /\ UNCHANGED <<scene_patterns_arg, scene_patterns, raw_text, cleaned_text,
                   lines, idx, current_scene, scene_number, result, error>>
    /\ UNCHANGED titleVars

\* segment_into_scenes, lines 177-182: the last scene, then return
SegmentEnd ==
    /\ pc = "loop"
    /\ idx > Len(lines)
    /\ scenes' = IF current_scene /= <<>>
                 THEN Append(scenes, _create_scene(current_scene, scene_number))
                 ELSE scenes
    /\ pc' = "assemble"
    /\ UNCHANGED <<scene_patterns_arg, scene_patterns, raw_text, cleaned_text,
                   lines, idx, current_scene, scene_number, result, error>>
    /\ UNCHANGED titleVars

\* load_script, lines 306-323: build the result dict and return it
Assemble ==
    /\ pc = "assemble"
    /\ IF PdInGlobals /\ ~PdHasTimestamp
       THEN /\ error' = "AttributeError"
            /\ result' = result
       ELSE /\ error' = error
            /\ result' = AssembleResult(raw_text, cleaned_text, scenes)
    /\ pc' = "done"
    /\ UNCHANGED <<scene_patterns_arg, scene_patterns, raw_text, cleaned_text,
                   lines, idx, scenes, current_scene, scene_number>>
    /\ UNCHANGED titleVars

Next ==
    \/ LoadScript
    \/ CleanText
    \/ SegmentBegin
    \/ LoopSkip
    \/ LoopNewScene
    \/ LoopAppend
    \/ SegmentEnd
    \/ Assemble

Spec == Init /\ [][Next]_vars

\* segment_into_scenes has returned
Segmented == pc \in {"assemble", "done"}

(* ---------------------------------------------------------------------- *)
(* The scene builder's title functions, applied to a title on its own     *)
(* ---------------------------------------------------------------------- *)
InitTitle ==
    /\ scene_patterns_arg = None
    /\ scene_patterns = InitPatterns(None)
    /\ raw_text = <<>>
    /\ cleaned_text = <<>>
    /\ lines = <<>>
    /\ idx = 1
    /\ scenes = <<>>
    /\ current_scene = <<>>
    /\ scene_number = 1
    /\ result = NoResult
    /\ error = ""
    /\ pc = "idle"
    /\ title \in Texts(TitleFrags, MaxTitleFrags)
    /\ location = <<>>
    /\ scene_type = ""
    /\ tpc = "location"

\* _create_scene, line 201: location = self._extract_location(title)
ExtractLocation ==
    /\ tpc = "location"
    /\ location' = _extract_location(title)
    /\ tpc' = "type"
    /\ UNCHANGED <<title, scene_type>>
    /\ UNCHANGED loaderVars

\* _extract_metadata, line 250: 'scene_type': self._determine_scene_type(lines)
DetermineSceneType ==
    /\ tpc = "type"
    /\ scene_type' = _determine_scene_type(<<title>>)
    /\ tpc' = "built"
    /\ UNCHANGED <<title, location>>
    /\ UNCHANGED loaderVars

NextTitle ==
    \/ ExtractLocation
    \/ DetermineSceneType

SpecTitle == InitTitle /\ [][NextTitle]_vars

(* ---------------------------------------------------------------------- *)
(* Properties                                                             *)
(* ---------------------------------------------------------------------- *)
NonEmptyLines(text) == SelectSeq(Split(text), LAMBDA l : l /= <<>>)

RawTexts == [i \in 1..Len(scenes) |-> scenes[i].raw_text]

\* C1: once segment_into_scenes has returned, the raw_text of the scenes,
\* joined in order with newlines, is the sequence of non-empty lines of the
\* cleaned text: no line is lost, duplicated or moved.
Thm_C1 ==
    Segmented => Join(RawTexts) = Join(NonEmptyLines(cleaned_text))

\* a text that cleaning changed and that was cut into several scenes
Wit_C1 ==
    /\ Segmented
    /\ Len(scenes) >= 2
    /\ cleaned_text /= raw_text

\* C2: the i-th scene carries number i, so the numbers are 1, 2, ..., N.
Thm_C2 ==
    \A i \in 1..Len(scenes) : scenes[i].number = i

Wit_C2 ==
    /\ Segmented
    /\ Len(scenes) >= 3

\* C3: a pattern list given at construction, empty or not, is the list the
\* segmenter tests lines against; with an empty list no line is a boundary
\* and a non-empty text becomes a single scene.
Claim_C3 ==
    /\ (pc = "loop" /\ idx <= Len(lines) /\ ~scene_patterns_arg.is_none)
          => (is_new_scene(scene_patterns, Strip(lines[idx]))
                 <=> is_new_scene(scene_patterns_arg.list, Strip(lines[idx])))
    /\ (Segmented /\ scene_patterns_arg = Given(<<>>) /\ cleaned_text /= <<>>)
          => Len(scenes) = 1

\* C4 (as claimed): the type follows the test order INT., EXT., INT/EXT., and
\* a title carrying the combined marker INT/EXT. is classified as interior.
Claim_C4 ==
    (tpc = "built" /\ Contains(Upper(title), INTEXT))
        => scene_type = TypeInterior

\* C4 (amended): the type follows the test order INT., EXT., INT/EXT.; a
\* title carrying INT/EXT. contains EXT. and not necessarily INT., so it is
\* exterior unless INT. occurs in it as well, and the third branch is never
\* taken.
Thm_C4 ==
    tpc = "built" =>
        LET u == Upper(title)
        IN /\ Contains(u, INT) => scene_type = TypeInterior
           /\ (~Contains(u, INT) /\ Contains(u, EXT)) => scene_type = TypeExterior
           /\ (~Contains(u, INT) /\ ~Contains(u, EXT))
                 => scene_type = TypeUndetermined
           /\ (Contains(u, INTEXT) /\ ~Contains(u, INT))
                 => scene_type = TypeExterior
           /\ scene_type /= TypeIntExt

\* a title with the combined marker and no plain INT., classified exterior
Wit_C4 ==
    /\ tpc = "built"
    /\ Contains(Upper(title), INTEXT)
    /\ ~Contains(Upper(title), INT)
    /\ scene_type = TypeExterior

\* C5: cleaning a cleaned text changes nothing.
Thm_C5 ==
    pc = "segment" => clean_text(cleaned_text) = cleaned_text

\* a text that the first cleaning changed into a non-empty text
Wit_C5 ==
    /\ pc = "segment"
    /\ cleaned_text /= raw_text
    /\ cleaned_text /= <<>>

\* no line of text matches a pattern of the loader
NoHeading(text) ==
    \A i \in 1..Len(Split(text)) : ~is_new_scene(scene_patterns, Split(text)[i])

\* C6 (as claimed): a text without any heading line gives exactly one scene,
\* whose raw_text is the cleaned text.
Claim_C6 ==
    (Segmented /\ NoHeading(raw_text))
        => (Len(scenes) = 1 /\ scenes[1].raw_text = cleaned_text)

\* C6 (amended): a text whose cleaned text is not empty and has no heading
\* line gives exactly one scene, whose raw_text is the cleaned text.
Thm_C6 ==
    (Segmented /\ cleaned_text /= <<>> /\ NoHeading(cleaned_text))
        => (Len(scenes) = 1 /\ scenes[1].raw_text = cleaned_text)

\* a heading-free text of several lines that cleaning changed
Wit_C6 ==
    /\ Segmented
    /\ NoHeading(cleaned_text)
    /\ Len(Split(cleaned_text)) >= 2
    /\ cleaned_text /= raw_text
    /\ Len(scenes) = 1

\* C7: for an empty or all-blank text the run ends without an exception,
\* with no scene and with an assembled result whose scene_count is 0.
Claim_C7 ==
    (pc = "done" /\ Strip(raw_text) = <<>>)
        => /\ error = ""
           /\ scenes = <<>>
           /\ result.assembled
           /\ result.text_info.scene_count = 0

\* text has two lines that survive cleaning with only empty lines, and at
\* least one, between them
BlankRunBetweenTextLines(text) ==
    LET ls == Split(text)
    IN \E k, m \in 1..Len(ls) :
          /\ m >= k + 2
          /\ KeepLine(Strip(ls[k]))
          /\ KeepLine(Strip(ls[m]))
          /\ \A x \in (k + 1)..(m - 1) : ls[x] = <<>>

\* C8: a run of newlines between two text lines comes out of clean_text as
\* exactly two newlines: the paragraph break is kept, longer runs are not.
Claim_C8 ==
    pc = "segment" =>
        /\ BlankRunBetweenTextLines(raw_text) => Contains(cleaned_text, <<NL, NL>>)
        /\ ~Contains(cleaned_text, <<NL, NL, NL>>)

\* one of the three markers occurs in s at index p, ignoring case
MarkerAt(s, p) == \E a \in 1..Len(LocMarkers) : LitAt(LocMarkers[a], s, p)

\* index right after the marker that occurs in s at index p
AfterMarker(s, p) ==
    p + Len(LocMarkers[CHOOSE a \in 1..Len(LocMarkers) : LitAt(LocMarkers[a], s, p)])

\* the characters of s from index e up to the next '-', trimmed
RunToDash(s, e) == Strip(SubSeq(s, e, NonDashRunEnd(s, e)))

\* the title itself, cut to 50 characters plus '...' when it is longer
Truncated(s) ==
    IF Len(s) > TitleLimit THEN SubSeq(s, 1, TitleLimit) \o Ellipsis ELSE s

\* C9 (as claimed): when the title contains a marker, location is the run
\* after the first marker up to the next '-', trimmed; otherwise it is the
\* title, cut to 50 characters plus '...' when it is longer.
Claim_C9 ==
    tpc /= "location" =>
        LET ps == {p \in 1..Len(title) : MarkerAt(title, p)}
        IN IF ps /= {}
           THEN location = RunToDash(title,
                    AfterMarker(title, CHOOSE p \in ps : \A q \in ps : p <= q))
           ELSE location = Truncated(title)

\* the marker at index p of s is followed by a character other than '-'
UsableMarkerAt(s, p) ==
    /\ MarkerAt(s, p)
    /\ AfterMarker(s, p) <= Len(s)
    /\ s[AfterMarker(s, p)] /= "-"

\* C9 (amended): when the title contains a marker that is followed by a
\* character other than '-', location is the run after the first such marker
\* up to the next '-', trimmed; otherwise (no marker, or each marker directly
\* followed by '-' or by the end of the title) it is the title, cut to 50
\* characters plus '...' when it is longer.
Thm_C9 ==
    tpc /= "location" =>
        LET ps == {p \in 1..Len(title) : UsableMarkerAt(title, p)}
        IN IF ps /= {}
           THEN location = RunToDash(title,
                    AfterMarker(title, CHOOSE p \in ps : \A q \in ps : p <= q))
           ELSE location = Truncated(title)

\* a location cut out of a title between a marker and a '-'
Wit_C9 ==
    /\ tpc /= "location"
    /\ MarkerAt(title, 1)
    /\ Contains(title, <<"-">>)
    /\ location = <<"K">>

\* C10: every scene was built from a non-empty buffer: its line_count is at
\* least 1, its title is the (non-empty) first line of its buffer, and its
\* number is at least 1.
Thm_C10 ==
    \A i \in 1..Len(scenes) :
        /\ scenes[i].metadata.line_count >= 1
        /\ scenes[i].title /= <<>>
        /\ scenes[i].title = Split(scenes[i].raw_text)[1]
        /\ scenes[i].number >= 1

\* several scenes were built, one of them from more than one line
Wit_C10 ==
    /\ Segmented
    /\ Len(scenes) >= 2
    /\ \E i \in 1..Len(scenes) : scenes[i].metadata.line_count >= 2

\* the lines the loop of segment_into_scenes does not skip
ScannedLines(text) ==
    LET ls == Split(text)
    IN SelectSeq([i \in 1..Len(ls) |-> Strip(ls[i])], LAMBDA l : l /= <<>>)

\* the lines of scene number i
SceneLines(i) == Split(scenes[i].raw_text)

IsHeading(line) == is_new_scene(scene_patterns, line)

\* C11: a heading met while the buffer is non-empty closes the buffer and
\* opens the next one, any other line is appended.  So, once the scan is
\* over: every scene but the first has a heading as title, no heading stands
\* at a non-first position of a scene, the first scanned line is the title of
\* scene 1 whether it is a heading or not, and the number of scenes is 1 plus
\* the number of headings among the scanned lines after the first.
Thm_C11 ==
    Segmented =>
        LET ls == ScannedLines(cleaned_text)
        IN /\ \A i \in 2..Len(scenes) : IsHeading(scenes[i].title)
           /\ \A i \in 1..Len(scenes) :
                 \A k \in 2..Len(SceneLines(i)) : ~IsHeading(SceneLines(i)[k])
           /\ ls /= <<>> =>
                 /\ scenes[1].title = ls[1]
                 /\ Len(scenes) =
                       1 + Cardinality({k \in 2..Len(ls) : IsHeading(ls[k])})
           /\ ls = <<>> => scenes = <<>>

\* leading text without heading, then a heading that opens scene 2 and is
\* followed by a further line
Wit_C11 ==
    /\ Segmented
    /\ Len(scenes) >= 2
    /\ ~IsHeading(scenes[1].title)
    /\ Len(SceneLines(2)) >= 2

====
